---- MODULE Spec2Model ----
(***************************************************************************)
(* State-machine models of the scripts of martysteer/piday2025:            *)
(*   image_to_nomic.py          (nm_ variables)                            *)
(*   simple_upload_to_atlas.py  (su_ variables)                            *)
(*   atlas_uploader.py          (au_ variables)                            *)
(*   batch_processor.py         (bp_ variables)                            *)
(*   piday2025posters/image-gallery.py (g_ variables)                      *)
(* The scripts are independent programs; each has its own specification,   *)
(* in which the variables of the other programs stay at their idle values. *)
(***************************************************************************)
EXTENDS Integers, Sequences, FiniteSets, TLC

\* ------------------------------------------------------------------ bounds
\* Number of distinct file paths the environment can create.
MaxFiles == 3
\* Largest batch size given on the command line.
MaxBatch == 3
\* --interval of atlas_uploader.py (watch_interval), in main-loop iterations
\* of one second each.
WatchInterval == 2

\* Number of distinct image files participants can put into the raw directory
\* of batch_processor.py.
MaxImages == 2

\* Number of images in the directory image-gallery.py is started on.
GalleryImages == 3
\* Width of the display in pixel columns (its height is one row).
DisplayWidth == 3
\* Largest number of buttons read as pressed in one reading.
MaxHeld == 1
\* Largest slide delay, in half seconds, the settings menu is used to set.
MaxSlideDelay == 2
\* Largest number of frames a transition is called with.
MaxFrames == 4
\* --delay of slideshow-script.py, in ticks of its clock.
SLIDE_DELAY == 2
\* Most .jsonl files in the directory the two threads of atlas_uploader.py
\* watch.
MaxWatched == 2

Files == 1..MaxFiles
Images == 1..MaxImages

\* ----------------------------------------------------------- shared helpers
Min(a, b) == IF a <= b THEN a ELSE b

Range(s) == {s[i] : i \in 1..Len(s)}

\* A call f(arg) with the argument evaluated once, before the call.
Call(f(_), arg) == CHOOSE r \in {f(x) : x \in {arg}} : TRUE

RECURSIVE SortedSeq(_)
\* list.sort() of a list of distinct paths: the paths in ascending order
\* (a path is modelled by its rank in the string order).
SortedSeq(S) ==
  IF S = {} THEN <<>>
  ELSE LET m == CHOOSE x \in S : \A y \in S : x <= y
           Others(T) == SortedSeq(T)
       IN <<m>> \o Call(Others, S \ {m})

\* Python's seq[a:b] with 0-based a (inclusive) and b (exclusive), 0 <= a.
Slice(s, a, b) == SubSeq(s, a + 1, Min(b, Len(s)))

\* ================================================================== state
VARIABLES
  \* image_to_nomic.py
  nm_pc,          \* "start" | "batch" | "done"
  nm_dir,         \* image files present in --input-dir
  nm_batch_size,  \* --batch-size
  nm_dry_run,     \* --dry-run
  nm_image_files, \* main: image_files
  nm_batch_idx,   \* process_images_batch: batch_idx of the next iteration
  nm_results,     \* process_images_batch: results (record ids, in order)
  nm_written,     \* whether save_jsonl wrote the output file
  nm_output,      \* the records of the output file
  nm_raised       \* history: the batch indices whose embed.image call raised

VARIABLES
  \* simple_upload_to_atlas.py
  su_dir,            \* image files present in --image-dir
  su_track,          \* the tracking file: [exists, uploaded_files, map_id, dataset_id]
  su_pc,             \* "idle" (no run in progress) | "batches" | "index"
  su_new_map,        \* args.new_map of the run
  su_batch_size,     \* args.batch_size of the run
  su_image_paths,    \* main: image_paths (the new files, in order)
  su_i,              \* main: i, the offset of the next batch
  su_uploaded_files, \* main: uploaded_files
  su_atlas_dataset,  \* main: atlas_dataset is not None
  su_first_batch,    \* main: first_batch
  su_map_id,         \* main: map_id
  su_dataset_id,     \* main: dataset_id
  su_call,           \* history: the last call that sent images to Atlas
  su_sent,           \* history: the image paths that call was given
  su_tracked_at_send, \* history: uploaded_files of the tracking file at that call
  su_cli_dataset     \* history: the --dataset-id given on the command line
                     \* of the run in progress ("None": not given)

suVars == <<su_dir, su_track, su_pc, su_new_map, su_batch_size, su_image_paths,
            su_i, su_uploaded_files, su_atlas_dataset, su_first_batch,
            su_map_id, su_dataset_id, su_call, su_sent, su_tracked_at_send,
            su_cli_dataset>>

VARIABLES
  \* atlas_uploader.py
  au_dir,              \* the .jsonl files present in the embeddings directory
  au_info,             \* map_id stored in atlas_info.json ("None": no file)
  au_running,          \* whether an uploader process is running
  au_events,           \* created files whose on_created call is still to come
  au_map_id,           \* self.map_id
  au_processed_files,  \* self.processed_files
  au_pending_files,    \* self.pending_files
  au_since_scan,       \* time.time() - self.last_scan_time, in main-loop
                       \* iterations, counted up to the watch interval
  au_uploaded_run,     \* history: files atlas.map_data accepted in this run
  au_uploaded_earlier, \* history: files atlas.map_data accepted in earlier runs
  au_retry_due,        \* history: files whose last upload attempt raised
  au_ever_failed       \* history: whether an upload attempt ever raised

auVars == <<au_dir, au_info, au_running, au_events, au_map_id,
            au_processed_files, au_pending_files, au_since_scan,
            au_uploaded_run, au_uploaded_earlier, au_retry_due, au_ever_failed>>

VARIABLES
  \* batch_processor.py
  bp_raw,              \* the image files present in the raw directory
  bp_running,          \* whether the processor has been constructed
  bp_events,           \* created images whose on_created call is still to come
  bp_batch_size,       \* self.batch_size
  bp_moves,            \* whether self.processed_dir is set
  bp_pending_images,   \* self.pending_images
  bp_processed_images, \* self.processed_images
  bp_since_scan,       \* time.time() - self.last_scan_time, in main-loop
                       \* iterations, counted up to the watch interval
  bp_recorded          \* the images with an embedding record in the output
                       \* file (batch_<timestamp>.jsonl) of their batch

bpVars == <<bp_raw, bp_running, bp_events, bp_batch_size, bp_moves,
            bp_pending_images, bp_processed_images, bp_since_scan,
            bp_recorded>>

nmVars == <<nm_pc, nm_dir, nm_batch_size, nm_dry_run, nm_image_files,
            nm_batch_idx, nm_results, nm_written, nm_output, nm_raised>>

VARIABLES
  g_settings,            \* the settings dict of main
  g_image_files,         \* image_files
  g_current_index,       \* current_index
  g_rotation_angle,      \* rotation_angle
  g_horizontal_flip,     \* horizontal_flip
  g_in_transform_menu,   \* in_transform_menu
  g_prev,                \* prev_a, prev_b, prev_x, prev_y
  g_x_press_time,        \* time since x_press_time was set, or Unset
  g_y_press_time,        \* time since y_press_time was set, or Unset
  g_last_slideshow_time, \* time since last_slideshow_time was set
  g_buffer,              \* the display buffer
  g_menu,                \* the locals of settings_menu while it is open
  g_hist                 \* history of presses and index changes

gVars == <<g_settings, g_image_files, g_current_index, g_rotation_angle,
           g_horizontal_flip, g_in_transform_menu, g_prev, g_x_press_time,
           g_y_press_time, g_last_slideshow_time, g_buffer, g_menu, g_hist>>

VARIABLES
  \* glitch.py, one call of glitch_transition
  gl_pc,              \* "idle", "phase1", "final_glitch", "phase2", "final",
                      \* "except", "returned" or "raised"
  gl_frames,          \* the argument frames
  gl_current,         \* current (the copy of current_image)
  gl_next,            \* next_img and next_image
  gl_i,               \* the loop variable i
  gl_final_glitched,  \* final_glitched, Black before it is assigned
  gl_buffer,          \* display.buffer
  gl_caught           \* the exception the except clause caught: "none",
                      \* "ZeroDivisionError" or "other" (not part of the
                      \* program)

glVars == <<gl_pc, gl_frames, gl_current, gl_next, gl_i, gl_final_glitched,
            gl_buffer, gl_caught>>

VARIABLES
  \* ascii.py, one call of ascii_transition
  as_pc,       \* "idle", "phase1", "phase2", "returned" or "raised"
  as_frames,   \* the argument frames
  as_invert,   \* the argument invert
  as_current,  \* current_image
  as_next,     \* next_image
  as_i,        \* the loop variable i
  as_buffer    \* display.buffer

asVars == <<as_pc, as_frames, as_invert, as_current, as_next, as_i,
            as_buffer>>

VARIABLES
  \* slideshow-script.py
  ss_pc,               \* where main is: "loop" (at the top of an iteration),
                       \* "transition" (before the frames of an advance) or
                       \* "end" (before last_change_time = current_time)
  ss_paused,           \* paused
  ss_current_index,    \* current_index
  ss_last_change_time, \* the time since last_change_time
  ss_current_time,     \* the time since current_time was read (line 308)
  ss_transition_mode,  \* transition_mode
  ss_show_info,        \* show_info
  ss_next,             \* the index next_image_with_info was loaded for
  ss_buffer,           \* the index of the image in the display buffer
  ss_hist              \* the step taken last and the time since the press
                       \* that resumed the slideshow (not part of the
                       \* program)

ssVars == <<ss_pc, ss_paused, ss_current_index, ss_last_change_time,
            ss_current_time, ss_transition_mode, ss_show_info, ss_next,
            ss_buffer, ss_hist>>

VARIABLES
  \* upload_to_atlas.py
  ua_dir,         \* the JSONL files of --embeddings-dir: "absent", "valid"
                  \* (holds records with an embedding) or "empty"
  ua_info,        \* atlas_info.json: [exists, map_id]
  ua_pc,          \* "idle" (no run in progress) or "upload" (before the try
                  \* block of main)
  ua_new_map,     \* new_map
  ua_map_id,      \* map_id
  ua_all_data,    \* the files whose records are in all_data
  ua_hist         \* the arguments of the last run, the map_id the info file
                  \* held when it began, and its Atlas call (not part of
                  \* the program)

uaVars == <<ua_dir, ua_info, ua_pc, ua_new_map, ua_map_id, ua_all_data,
            ua_hist>>

VARIABLES
  \* process_images.py
  pi_images,           \* the image files of --image-dir
  pi_output,           \* the paths recorded as metadata.filepath in the JSONL
                       \* files of --output-dir
  pi_pc,               \* "idle" (no run in progress) or "batches"
  pi_force,            \* force_reprocess
  pi_batch_size,       \* batch_size
  pi_new_image_files,  \* new_image_files
  pi_batch_start,      \* batch_start
  pi_hist,             \* of the last run: what it found and what was
                       \* recorded when it began, the files it gave to
                       \* embed.image, those of its failed batches, and those
                       \* of the failed batches of the run before (not part of
                       \* the program)
  \* atlas_uploader.py, the two threads of a process (the fields of the
  \* AtlasUploader they share are the au_ variables)
  at_pc,               \* per thread: the statement it is about to execute
  at_filepath,         \* per thread: file_path / filepath of its call
  at_new_files,        \* new_files of the main thread's _scan_for_new_files
  at_creating,         \* per thread: whether its atlas.map_data call is the
                       \* one of line 161 (self.map_id was None)
  at_again             \* history: files for which atlas.map_data returned
                       \* when it had already returned for them in this run

VARIABLES
  \* display-image.py
  di_pc,               \* "off" (not started), "loop" (in the polling loop of
                       \* main) or "exited" (after sys.exit)
  di_prev,             \* prev_a, prev_b, prev_x, prev_y
  di_horizontal_flip,  \* horizontal_flip
  di_is_portrait,      \* is_portrait
  di_rotation_angle,   \* rotation_angle
  di_hist              \* per button: for how many iterations of the loop in
                       \* a row it has been read as pressed (two stands for
                       \* two or more), and how often its action has run
                       \* since it was last read as released by the loop
                       \* (not part of the program)

piVars == <<pi_images, pi_output, pi_pc, pi_force, pi_batch_size,
            pi_new_image_files, pi_batch_start, pi_hist>>

\* The variables of the remaining programs.
atVars == <<at_pc, at_filepath, at_new_files, at_creating, at_again>>

diVars == <<di_pc, di_prev, di_horizontal_flip, di_is_portrait,
            di_rotation_angle, di_hist>>

restVars == <<glVars, asVars, ssVars, uaVars, piVars, atVars, diVars>>

vars == <<nmVars, suVars, auVars, bpVars, gVars, restVars>>

\* The variables of the other programs, which a program's steps leave alone.
nmOthers == <<suVars, auVars, bpVars, gVars, restVars>>
suOthers == <<nmVars, auVars, bpVars, gVars, restVars>>
auOthers == <<nmVars, suVars, bpVars, gVars, restVars>>
bpOthers == <<nmVars, suVars, auVars, gVars, restVars>>
gOthers == <<nmVars, suVars, auVars, bpVars, restVars>>
firstVars == <<nmVars, suVars, auVars, bpVars, gVars>>
glOthers == <<firstVars, diVars, asVars, ssVars, uaVars, piVars, atVars>>
asOthers == <<firstVars, diVars, glVars, ssVars, uaVars, piVars, atVars>>
ssOthers == <<firstVars, diVars, glVars, asVars, uaVars, piVars, atVars>>
uaOthers == <<firstVars, diVars, glVars, asVars, ssVars, piVars, atVars>>
piOthers == <<firstVars, diVars, glVars, asVars, ssVars, uaVars, atVars>>
atOthers == <<nmVars, suVars, bpVars, gVars, glVars, asVars, ssVars, uaVars,
              piVars, diVars>>
diOthers == <<firstVars, glVars, asVars, ssVars, uaVars, piVars, atVars>>

\* ======================================================== image_to_nomic.py
\* find_image_files with max_files = None: every file of the directory with
\* one of the extensions, sorted.
find_image_files(dir) == SortedSeq(dir)

TotalBatchesFloor(n, bs) == n \div bs

\* total_batches = (len(image_files) + batch_size - 1) // batch_size
TotalBatches(n, bs) == (n + bs - 1) \div bs

\* batch_files = image_files[start_idx:end_idx]
BatchFiles(files, bs, idx) ==
  Slice(files, idx * bs, Min((idx + 1) * bs, Len(files)))

\* The loop of process_images_batch (not a dry run) from batch_idx on: the
\* records it appends to results, one per image of every batch whose
\* embed.image call returns. raised: the indices of the batches whose call
\* raises, which line 135 catches.
RECURSIVE BatchResults(_, _, _, _)
BatchResults(image_files, batch_size, raised, batch_idx) ==
  IF batch_idx >= TotalBatches(Len(image_files), batch_size) THEN <<>>
  ELSE (IF batch_idx \in raised THEN <<>>
        ELSE BatchFiles(image_files, batch_size, batch_idx))
         \o BatchResults(image_files, batch_size, raised, batch_idx + 1)

process_images_batch(image_files, batch_size, raised) ==
  BatchResults(image_files, batch_size, raised, 0)

NomicInitWith(dir, bs, dry) ==
  /\ nm_pc = "start"
  /\ nm_dir = dir
  /\ nm_batch_size = bs
  /\ nm_dry_run = dry
  /\ nm_image_files = <<>>
  /\ nm_batch_idx = 0
  /\ nm_results = <<>>
  /\ nm_written = FALSE
  /\ nm_output = <<>>
  /\ nm_raised = {}

NomicInit ==
  \E dir \in SUBSET Files, bs \in 1..MaxBatch, dry \in BOOLEAN :
    NomicInitWith(dir, bs, dry)

NomicIdle == NomicInitWith({}, 1, FALSE)

\* main up to the call of process_images_batch: find the images; return
\* without writing anything when there are none.
NomicFind ==
  /\ nm_pc = "start"
  /\ nm_image_files' = find_image_files(nm_dir)
  /\ nm_pc' = IF nm_image_files' = <<>> THEN "done" ELSE "batch"
  /\ UNCHANGED <<nmOthers, nm_dir, nm_batch_size, nm_dry_run, nm_batch_idx, nm_results,
                 nm_written, nm_output, nm_raised>>

\* One iteration of the loop of process_images_batch. In a dry run the
\* records are made without calling the embedder; otherwise embed.image
\* either returns one embedding per image or raises, and a batch whose call
\* raised only prints an error.
NomicBatch(raises) ==
  /\ nm_pc = "batch"
  /\ nm_batch_idx < TotalBatches(Len(nm_image_files), nm_batch_size)
  /\ LET batch == BatchFiles(nm_image_files, nm_batch_size, nm_batch_idx)
     IN IF nm_dry_run \/ ~raises
        THEN /\ nm_results' = nm_results \o batch
             /\ UNCHANGED nm_raised
        ELSE /\ nm_raised' = nm_raised \cup {nm_batch_idx}
             /\ UNCHANGED nm_results
  /\ nm_batch_idx' = nm_batch_idx + 1
  /\ UNCHANGED <<nmOthers, nm_pc, nm_dir, nm_batch_size, nm_dry_run, nm_image_files,
                 nm_written, nm_output>>

\* The loop is over: process_images_batch returns and main saves the records.
NomicSave ==
  /\ nm_pc = "batch"
  /\ nm_batch_idx >= TotalBatches(Len(nm_image_files), nm_batch_size)
  /\ nm_output' = nm_results
  /\ nm_written' = TRUE
  /\ nm_pc' = "done"
  /\ UNCHANGED <<nmOthers, nm_dir, nm_batch_size, nm_dry_run, nm_image_files,
                 nm_batch_idx, nm_results, nm_raised>>

NomicNext ==
  \/ NomicFind
  \/ \E raises \in BOOLEAN : NomicBatch(raises)
  \/ NomicSave

\* ================================================ simple_upload_to_atlas.py
\* The default of --dataset-id and the fallback of create_new_atlas_map.
DEFAULT_DATASET == "martysteer/piday2025"

\* The tracking file as get_uploaded_files reads it; a missing file (or a
\* missing key) reads as no uploaded files and None for the ids.
NoTrack == [exists |-> FALSE, uploaded_files |-> {}, map_id |-> "None",
            dataset_id |-> "None"]

\* update_tracking_file
TrackFile(uploaded, map_id, dataset_id) ==
  [exists |-> TRUE, uploaded_files |-> uploaded, map_id |-> map_id,
   dataset_id |-> dataset_id]

\* find_image_files of simple_upload_to_atlas.py: every file with one of the
\* extensions (either case), sorted.
su_find_image_files(dir) == SortedSeq(dir)

NewImageFilesAll(all_image_files, uploaded) == all_image_files

\* new_image_files = [f for f in all_image_files if f not in uploaded_files]
NewImageFiles(all_image_files, uploaded) ==
  SelectSeq(all_image_files, LAMBDA f : f \notin uploaded)

\* args.dataset_id: the --dataset-id of the command line, the default
\* string when none is given.
ParsedDatasetId(dataset_arg) ==
  IF dataset_arg = "None" THEN DEFAULT_DATASET ELSE dataset_arg

\* The dataset id main uses: the command line's unless it is the default
\* string and the tracking file holds one.
ChooseDatasetId(arg, existing) ==
  IF arg # DEFAULT_DATASET \/ existing = "None" THEN arg ELSE existing

SimpleInit ==
  /\ su_dir = {}
  /\ su_track = NoTrack
  /\ su_pc = "idle"
  /\ su_new_map = FALSE
  /\ su_batch_size = 1
  /\ su_image_paths = <<>>
  /\ su_i = 0
  /\ su_uploaded_files = {}
  /\ su_atlas_dataset = FALSE
  /\ su_first_batch = TRUE
  /\ su_map_id = "None"
  /\ su_dataset_id = "None"
  /\ su_call = "none"
  /\ su_sent = {}
  /\ su_tracked_at_send = {}
  /\ su_cli_dataset = "None"

\* The environment puts a new image file into the image directory.
SimpleAddImage(f) ==
  /\ f \notin su_dir
  /\ su_dir' = su_dir \cup {f}
  /\ UNCHANGED <<suOthers, su_track, su_pc, su_new_map, su_batch_size, su_image_paths,
                 su_i, su_uploaded_files, su_atlas_dataset, su_first_batch,
                 su_map_id, su_dataset_id, su_call, su_sent,
                 su_tracked_at_send, su_cli_dataset>>

\* A run of main up to the batch loop. It returns at once when the directory
\* holds no image or no new image. connects: whether AtlasDataset(dataset_id)
\* of get_or_create_atlas_dataset returns (it raises otherwise).
SimpleStart(new_map, batch_size, dataset_arg, connects) ==
  /\ su_pc = "idle"
  /\ su_cli_dataset' = dataset_arg
  /\ LET all_image_files == su_find_image_files(su_dir)
         new_image_files == NewImageFiles(all_image_files,
                                          su_track.uploaded_files)
         dataset_id == ChooseDatasetId(ParsedDatasetId(dataset_arg),
                                       su_track.dataset_id)
     IN /\ all_image_files # <<>>
        /\ new_image_files # <<>>
        /\ su_uploaded_files' = su_track.uploaded_files
        /\ su_dataset_id' = dataset_id
        /\ su_map_id' = IF new_map THEN "None" ELSE su_track.map_id
        /\ su_image_paths' = new_image_files
        /\ su_atlas_dataset' = (~new_map /\ connects)
  /\ su_new_map' = new_map
  /\ su_batch_size' = batch_size
  /\ su_i' = 0
  /\ su_first_batch' = TRUE
  /\ su_pc' = "batches"
  /\ UNCHANGED <<suOthers, su_dir, su_track, su_call, su_sent, su_tracked_at_send>>

\* One iteration of the batch loop. outcome: "ok", or "raise": the Atlas call
\* (or, after map_data, the AtlasDataset constructor) raises and the loop is
\* left. project_id: the dataset id the new map reports ("None": it reports
\* none and the id in use, or the default, is kept).
SimpleBatch(outcome, project_id) ==
  /\ su_pc = "batches"
  /\ su_i < Len(su_image_paths)
  /\ LET batch_end == Min(su_i + su_batch_size, Len(su_image_paths))
         batch_images == Slice(su_image_paths, su_i, batch_end)
         creates == su_first_batch /\ (su_new_map \/ ~su_atlas_dataset)
         new_dataset == IF project_id # "None" THEN project_id
                        ELSE IF su_dataset_id # "None" THEN su_dataset_id
                        ELSE DEFAULT_DATASET
     IN /\ su_call' = IF creates THEN "map_data" ELSE "add_data"
        /\ su_sent' = Range(batch_images)
        /\ su_tracked_at_send' = su_track.uploaded_files
        /\ IF outcome = "ok"
           THEN /\ su_atlas_dataset' = TRUE
                /\ su_map_id' = IF creates THEN "map" ELSE su_map_id
                /\ su_dataset_id' = IF creates THEN new_dataset
                                    ELSE su_dataset_id
                /\ su_first_batch' = IF creates THEN FALSE ELSE su_first_batch
                /\ su_uploaded_files' = su_uploaded_files \cup Range(batch_images)
                /\ su_track' = TrackFile(su_uploaded_files', su_map_id',
                                         su_dataset_id')
                /\ su_i' = su_i + su_batch_size
                /\ su_pc' = IF su_i' < Len(su_image_paths) THEN "batches"
                            ELSE "index"
           ELSE /\ su_pc' = "index"
                /\ UNCHANGED <<su_atlas_dataset, su_map_id, su_dataset_id,
                               su_first_batch, su_uploaded_files, su_track,
                               su_i>>
  /\ UNCHANGED <<suOthers, su_dir, su_new_map, su_batch_size, su_image_paths,
                 su_cli_dataset>>

\* After the loop: create_index on the dataset, if there is one. index_ok:
\* whether create_index returns a map (it raises otherwise). The tracking
\* file is rewritten when the run had no map id yet.
SimpleIndex(index_ok) ==
  /\ su_pc = "index"
  /\ IF su_atlas_dataset /\ index_ok /\ su_map_id = "None"
     THEN /\ su_map_id' = "map"
          /\ su_track' = TrackFile(su_uploaded_files, su_map_id', su_dataset_id)
     ELSE UNCHANGED <<su_map_id, su_track>>
  /\ su_pc' = "idle"
  /\ su_cli_dataset' = "None"
  /\ UNCHANGED <<suOthers, su_dir, su_new_map, su_batch_size, su_image_paths, su_i,
                 su_uploaded_files, su_atlas_dataset, su_first_batch,
                 su_dataset_id, su_call, su_sent, su_tracked_at_send>>

SimpleNext ==
  \/ \E f \in Files : SimpleAddImage(f)
  \/ \E new_map \in BOOLEAN, batch_size \in 1..MaxBatch,
        dataset_arg \in {"None", DEFAULT_DATASET, "user/other"},
        connects \in BOOLEAN :
       SimpleStart(new_map, batch_size, dataset_arg, connects)
  \/ \E outcome \in {"ok", "raise"}, project_id \in {"None", "atlas/project"} :
       SimpleBatch(outcome, project_id)
  \/ \E index_ok \in BOOLEAN : SimpleIndex(index_ok)

\* ========================================================= atlas_uploader.py
\* All orders in which a glob can list the files of a set.
Orders(S) ==
  {o \in [1..Cardinality(S) -> S] : \A i, j \in 1..Cardinality(S) :
                                       i # j => o[i] # o[j]}

\* The fields of an AtlasUploader (and the info file and the history) as one
\* record, so that the methods compose as the code calls them.
AuSelf ==
  [map_id |-> au_map_id, processed_files |-> au_processed_files,
   pending_files |-> au_pending_files, since_scan |-> au_since_scan,
   info |-> au_info, uploaded_run |-> au_uploaded_run,
   retry_due |-> au_retry_due, ever_failed |-> au_ever_failed]

AuSet(self) ==
  /\ au_map_id' = self.map_id
  /\ au_processed_files' = self.processed_files
  /\ au_pending_files' = self.pending_files
  /\ au_since_scan' = self.since_scan
  /\ au_info' = self.info
  /\ au_uploaded_run' = self.uploaded_run
  /\ au_retry_due' = self.retry_due
  /\ au_ever_failed' = self.ever_failed

\* _save_map_info: writes the info file when there is a map id.
au_save_map_info(self) ==
  IF self.map_id # "None" THEN [self EXCEPT !.info = self.map_id] ELSE self

\* upload_file. outcome: "ok" (atlas.map_data returns), "empty" (the file
\* holds no record) or "raise" (reading the file or the Atlas call raises).
au_upload_file(self, filepath, outcome) ==
  IF filepath \in self.processed_files THEN self
  ELSE LET tried == [self EXCEPT !.retry_due = @ \ {filepath}]
       IN CASE outcome = "empty" ->
                 [tried EXCEPT !.processed_files = @ \cup {filepath}]
            [] outcome = "ok" ->
                 LET sent == [tried EXCEPT !.uploaded_run = @ \cup {filepath}]
                     mapped == IF sent.map_id = "None"
                               THEN au_save_map_info(
                                      [sent EXCEPT !.map_id = "map"])
                               ELSE sent
                 IN [mapped EXCEPT !.processed_files = @ \cup {filepath}]
            [] OTHER ->
                 [tried EXCEPT !.pending_files = Append(@, filepath),
                               !.retry_due = @ \cup {filepath},
                               !.ever_failed = TRUE]

\* process_pending: uploads the first pending file, if there is one.
au_process_pending(self, outcome) ==
  IF self.pending_files = <<>> THEN self
  ELSE Call(LAMBDA popped :
              au_upload_file(popped, Head(self.pending_files), outcome),
            [self EXCEPT !.pending_files = Tail(@)])

\* _scan_for_new_files, called `elapsed` iterations after the last call.
\* all_files: the glob's listing.
au_scan_for_new_files(self, elapsed, all_files, outcome) ==
  IF elapsed < WatchInterval THEN [self EXCEPT !.since_scan = elapsed]
  ELSE LET new_files == SelectSeq(all_files,
                          LAMBDA f : /\ f \notin self.processed_files
                                     /\ f \notin Range(self.pending_files))
       IN IF new_files # <<>>
          THEN Call(LAMBDA s : au_process_pending(s, outcome),
                    [self EXCEPT !.since_scan = 0,
                                 !.pending_files = @ \o new_files])
          ELSE [self EXCEPT !.since_scan = 0]

Outcomes == {"ok", "empty", "raise"}

UploaderInit ==
  /\ au_dir = {}
  /\ au_info = "None"
  /\ au_running = FALSE
  /\ au_events = {}
  /\ au_map_id = "None"
  /\ au_processed_files = {}
  /\ au_pending_files = <<>>
  /\ au_since_scan = 0
  /\ au_uploaded_run = {}
  /\ au_uploaded_earlier = {}
  /\ au_retry_due = {}
  /\ au_ever_failed = FALSE

\* A new .jsonl file appears in the embeddings directory; a running
\* uploader's observer will call on_created for it.
UploaderCreateFile(f) ==
  /\ f \notin au_dir
  /\ au_dir' = au_dir \cup {f}
  /\ au_events' = IF au_running THEN au_events \cup {f} ELSE au_events
  /\ UNCHANGED <<auOthers, au_info, au_running, au_map_id, au_processed_files,
                 au_pending_files, au_since_scan, au_uploaded_run,
                 au_uploaded_earlier, au_retry_due, au_ever_failed>>

\* main starts a process: AtlasUploader.__init__ with its initial scan
\* (last_scan_time = 0, so the scan is not skipped).
UploaderStart(map_id_arg, all_files, outcome) ==
  /\ ~au_running
  /\ LET fresh == [map_id |-> IF map_id_arg = "None" THEN au_info
                              ELSE map_id_arg,
                   processed_files |-> {}, pending_files |-> <<>>,
                   since_scan |-> 0, info |-> au_info, uploaded_run |-> {},
                   retry_due |-> {}, ever_failed |-> au_ever_failed]
     IN \E next \in {au_scan_for_new_files(fresh, WatchInterval, all_files,
                                            outcome)} : AuSet(next)
  /\ au_uploaded_earlier' = au_uploaded_earlier \cup au_uploaded_run
  /\ au_running' = TRUE
  /\ au_events' = {}
  /\ UNCHANGED <<auOthers, au_dir>>

\* on_created for a created .jsonl file.
UploaderOnCreated(f, outcome) ==
  /\ au_running
  /\ f \in au_events
  /\ au_events' = au_events \ {f}
  /\ \E appended \in {[AuSelf EXCEPT !.pending_files = Append(@, f)]} :
     \E next \in {au_process_pending(appended, outcome)} : AuSet(next)
  /\ UNCHANGED <<auOthers, au_dir, au_running, au_uploaded_earlier>>

\* One iteration of main's loop: sleep(1), then run_periodic_tasks.
\* save_window: whether time.time() % 300 < 10.
UploaderPeriodic(all_files, outcome, save_window) ==
  /\ au_running
  /\ \E self \in {AuSelf} :
     \E scanned \in {au_scan_for_new_files(self, au_since_scan + 1,
                                           all_files, outcome)} :
       AuSet(IF save_window THEN au_save_map_info(scanned) ELSE scanned)
  /\ UNCHANGED <<auOthers, au_dir, au_running, au_events, au_uploaded_earlier>>

\* KeyboardInterrupt: the process ends.
UploaderStop ==
  /\ au_running
  /\ au_running' = FALSE
  /\ au_events' = {}
  /\ UNCHANGED <<auOthers, au_dir, au_info, au_map_id, au_processed_files,
                 au_pending_files, au_since_scan, au_uploaded_run,
                 au_uploaded_earlier, au_retry_due, au_ever_failed>>

UploaderLoop ==
  \E all_files \in Orders(au_dir), outcome \in Outcomes,
     save_window \in BOOLEAN :
    UploaderPeriodic(all_files, outcome, save_window)

UploaderNext ==
  \/ \E f \in Files : UploaderCreateFile(f)
  \/ \E map_id_arg \in {"None", "cli-map"}, all_files \in Orders(au_dir),
        outcome \in Outcomes :
       UploaderStart(map_id_arg, all_files, outcome)
  \/ \E f \in Files, outcome \in Outcomes : UploaderOnCreated(f, outcome)
  \/ UploaderLoop
  \/ UploaderStop

\* ======================================================== batch_processor.py
\* The fields of an ImageBatchProcessor (with the raw directory and the
\* history) as one record, so that the methods compose as the code calls
\* them.
BpSelf ==
  [pending_images |-> bp_pending_images,
   processed_images |-> bp_processed_images, since_scan |-> bp_since_scan,
   raw |-> bp_raw, recorded |-> bp_recorded]

BpSet(self) ==
  /\ bp_pending_images' = self.pending_images
  /\ bp_processed_images' = self.processed_images
  /\ bp_since_scan' = self.since_scan
  /\ bp_raw' = self.raw
  /\ bp_recorded' = self.recorded

\* The batch indices whose embed.image call raises, for an outcome of
\* process_batch: its one call (process_images_batch is given the batch
\* with its length as batch size) raises when the outcome is "unembedded".
EmbedRaised(outcome) == IF outcome = "unembedded" THEN {0} ELSE {}

bp_process_batch_unforced(self, force, outcome) ==
  IF Len(self.pending_images) < bp_batch_size THEN self
  ELSE LET batch == Slice(self.pending_images, 0, bp_batch_size)
           rest == Slice(self.pending_images, bp_batch_size,
                         Len(self.pending_images))
       IN IF outcome # "raise"
          THEN [self EXCEPT
                  !.pending_images = rest,
                  !.recorded = @ \cup Range(process_images_batch(
                                 batch, bp_batch_size, EmbedRaised(outcome))),
                  !.raw = IF bp_moves THEN @ \ Range(batch) ELSE @,
                  !.processed_images = @ \cup Range(batch)]
          ELSE self

\* process_batch. outcome: "ok"; "unembedded": embed.image raises, which
\* process_images_batch catches, returning no record; or "raise": the body
\* of the try raises (save_jsonl cannot write the file) and the batch goes
\* back to the front of the queue.
bp_process_batch(self, force, outcome) ==
  IF self.pending_images = <<>> THEN self
  ELSE IF force \/ Len(self.pending_images) >= bp_batch_size
  THEN LET batch_size == Min(Len(self.pending_images), bp_batch_size)
           batch == Slice(self.pending_images, 0, batch_size)
           rest == Slice(self.pending_images, batch_size,
                         Len(self.pending_images))
           Embed(image_files) ==
             process_images_batch(image_files, batch_size,
                                  EmbedRaised(outcome))
           results == Call(Embed, batch)
       IN IF outcome # "raise"
          THEN [self EXCEPT
                  !.pending_images = rest,
                  !.recorded = @ \cup Range(results),
                  !.raw = IF bp_moves THEN @ \ Range(batch) ELSE @,
                  !.processed_images = @ \cup Range(batch)]
          ELSE [self EXCEPT !.pending_images = batch \o rest]
  ELSE self

\* process_pending_if_needed: a batch is processed when the queue holds a
\* full one.
bp_process_pending_if_needed(self, outcome) ==
  IF Len(self.pending_images) >= bp_batch_size
  THEN bp_process_batch(self, FALSE, outcome)
  ELSE self

\* _scan_for_new_images, called `elapsed` iterations after the last call.
bp_scan_for_new_images(self, elapsed, outcome) ==
  IF elapsed < WatchInterval THEN [self EXCEPT !.since_scan = elapsed]
  ELSE LET all_images == find_image_files(self.raw)
           new_images == SelectSeq(all_images,
                           LAMBDA img : /\ img \notin self.processed_images
                                        /\ img \notin Range(self.pending_images))
       IN IF new_images # <<>>
          THEN Call(LAMBDA s : bp_process_pending_if_needed(s, outcome),
                    [self EXCEPT !.since_scan = 0,
                                 !.pending_images = @ \o new_images])
          ELSE [self EXCEPT !.since_scan = 0]

\* run_periodic_tasks. force_window: whether time.time() % 300 < 10.
bp_run_periodic_tasks(self, elapsed, force_window, outcome, force_outcome) ==
  Call(LAMBDA scanned :
         IF scanned.pending_images # <<>> /\ force_window
         THEN bp_process_batch(scanned, TRUE, force_outcome)
         ELSE scanned,
       bp_scan_for_new_images(self, elapsed, outcome))

BatchOutcomes == {"ok", "raise"}

\* The outcomes of process_batch with those of its embedding call.
EmbedOutcomes == {"ok", "unembedded", "raise"}

BatchInit ==
  /\ bp_raw = {}
  /\ bp_running = FALSE
  /\ bp_events = {}
  /\ bp_batch_size = 1
  /\ bp_moves = FALSE
  /\ bp_pending_images = <<>>
  /\ bp_processed_images = {}
  /\ bp_since_scan = 0
  /\ bp_recorded = {}

\* A participant's image appears in the raw directory; a running
\* processor's observer will call on_created for it.
BatchCreateImage(img) ==
  /\ img \notin bp_raw
  /\ img \notin bp_processed_images
  /\ bp_raw' = bp_raw \cup {img}
  /\ bp_events' = IF bp_running THEN bp_events \cup {img} ELSE bp_events
  /\ UNCHANGED <<bpOthers, bp_running, bp_batch_size, bp_moves,
                 bp_pending_images, bp_processed_images, bp_since_scan,
                 bp_recorded>>

\* main constructs the processor: __init__ with its initial scan
\* (last_scan_time = 0, so the scan is not skipped).
BatchStart(batch_size, moves, outcome) ==
  /\ ~bp_running
  /\ bp_running' = TRUE
  /\ bp_batch_size' = batch_size
  /\ bp_moves' = moves
  /\ LET fresh == [pending_images |-> <<>>, processed_images |-> {},
                   since_scan |-> 0, raw |-> bp_raw,
                   recorded |-> {}]
         new_images == find_image_files(bp_raw)
         queued == [fresh EXCEPT !.pending_images = new_images]
         batch == Slice(new_images, 0, batch_size)
     IN \E next \in
          {IF Len(new_images) < batch_size THEN queued
           ELSE IF outcome # "raise"
           THEN [queued EXCEPT
                   !.pending_images = Slice(@, batch_size, Len(@)),
                   !.recorded = Range(process_images_batch(
                                  batch, batch_size, EmbedRaised(outcome))),
                   !.raw = IF moves THEN @ \ Range(batch) ELSE @,
                   !.processed_images = Range(batch)]
           ELSE queued} : BpSet(next)
  /\ UNCHANGED <<bpOthers, bp_events>>

\* on_created for a created image file.
BatchOnCreated(img, outcome) ==
  /\ bp_running
  /\ img \in bp_events
  /\ bp_events' = bp_events \ {img}
  /\ \E appended \in {[BpSelf EXCEPT !.pending_images = Append(@, img)]} :
     \E next \in {bp_process_pending_if_needed(appended, outcome)} :
       BpSet(next)
  /\ UNCHANGED <<bpOthers, bp_running, bp_batch_size, bp_moves>>

\* One iteration of main's loop: sleep(1), then run_periodic_tasks.
BatchPeriodic(force_window, outcome, force_outcome) ==
  /\ bp_running
  /\ \E self \in {BpSelf} :
     \E next \in {bp_run_periodic_tasks(self, bp_since_scan + 1, force_window,
                                        outcome, force_outcome)} : BpSet(next)
  /\ UNCHANGED <<bpOthers, bp_running, bp_events, bp_batch_size, bp_moves>>

BatchLoop ==
  \E force_window \in BOOLEAN, outcome \in BatchOutcomes,
     force_outcome \in BatchOutcomes :
    BatchPeriodic(force_window, outcome, force_outcome)

\* An iteration that falls into the force window and whose batches are saved.
BatchLoopInWindow == BatchPeriodic(TRUE, "ok", "ok")

\* An iteration of main's loop, with the outcomes of the embedding calls.
BatchEmbedLoop ==
  \E force_window \in BOOLEAN, outcome \in EmbedOutcomes,
     force_outcome \in EmbedOutcomes :
    BatchPeriodic(force_window, outcome, force_outcome)

BatchNext ==
  \/ \E img \in Images : BatchCreateImage(img)
  \/ \E batch_size \in 1..MaxBatch, moves \in BOOLEAN,
        outcome \in BatchOutcomes :
       BatchStart(batch_size, moves, outcome)
  \/ \E img \in Images, outcome \in BatchOutcomes :
       BatchOnCreated(img, outcome)
  \/ BatchLoop

\* The processor with the outcomes of its embedding calls told apart.
BatchEmbedNext ==
  \/ \E img \in Images : BatchCreateImage(img)
  \/ \E batch_size \in 1..MaxBatch, moves \in BOOLEAN,
        outcome \in EmbedOutcomes :
       BatchStart(batch_size, moves, outcome)
  \/ \E img \in Images, outcome \in EmbedOutcomes :
       BatchOnCreated(img, outcome)
  \/ BatchEmbedLoop

\* ======================================== piday2025posters/image-gallery.py
\* Time is counted in whole seconds. A time stamp of the code (x_press_time,
\* y_press_time, last_slideshow_time, menu_start_time) is kept as the time
\* elapsed since it was taken, so `time.time() - t > d` reads `t > d`; the
\* elapsed time stops counting one past the largest value it is compared
\* with. The slide delay is counted in half seconds, the step of the menu.
FADE_STEPS == 10
SLIDE_STEPS == 15
MENU_TIMEOUT == 10
\* The 1.0 s of the long-press checks.
LONG_PRESS == 1
\* x_press_time = 0 / y_press_time = 0: no press is being timed.
Unset == -1
\* The clamps of change_setting_value: 1.0 s and 15.0 s in half seconds,
\* 0.1 and 1.0 in tenths.
DELAY_MIN == 2
DELAY_MAX == 30
BRIGHTNESS_MIN == 1
BRIGHTNESS_MAX == 10

GalleryFiles == 1..GalleryImages
Columns == 1..DisplayWidth

\* One reading of the four buttons (display.read_button).
Buttons == [a : BOOLEAN, b : BOOLEAN, x : BOOLEAN, y : BOOLEAN]
NoButtons == [a |-> FALSE, b |-> FALSE, x |-> FALSE, y |-> FALSE]
Held(c) == Cardinality({k \in {"a", "b", "x", "y"} : c[k]})
Readings == {c \in Buttons : Held(c) <= MaxHeld}

\* ---- images: a row of DisplayWidth pixels, a pixel being a number
\* Image.new("RGB", (width, height)): black.
Black == [c \in Columns |-> 0]

\* A drawing, one pixel value per column; drawings with different codes
\* differ in every column.
Picture(code) == [c \in Columns |-> code * DisplayWidth + c]

\* display_info_message and draw_settings_menu: a screen of text (what the
\* text says is not modelled).
TextScreen == Picture(0)

\* process_image followed (with show_info) by overlay_info, which prints the
\* file name and index+1: one drawing per file, orientation, rotation, flip
\* and overlay text.
ImageCode(file, is_portrait, rotation, flip_horizontal, show_info, index) ==
  1 + (IF flip_horizontal THEN 1 ELSE 0)
    + 2 * (rotation \div 90)
    + 8 * (IF is_portrait THEN 1 ELSE 0)
    + 16 * (IF show_info THEN index + 1 ELSE 0)
    + 16 * (GalleryImages + 1) * (file - 1)

\* update_display: the processed image of the file at current_index (every
\* file loads).
update_display(s) ==
  Picture(ImageCode(s.image_files[s.current_index + 1],
                    s.settings.orientation = "portrait",
                    s.rotation_angle, s.horizontal_flip,
                    s.settings.show_info, s.current_index))

\* Image.blend(im1, im2, step / FADE_STEPS)
Blend(im1, im2, step) ==
  [c \in Columns |-> (im1[c] * (FADE_STEPS - step) + im2[c] * step)
                        \div FADE_STEPS]

\* dst.paste(src, (x, 0)): the columns of src that fall inside dst.
Paste(dst, src, x) ==
  [c \in Columns |-> IF c - x \in Columns THEN src[c - x] ELSE dst[c]]

\* The frame the fade loop writes at a step.
FadeFrame(current_image, next_image, step) ==
  Blend(current_image, next_image, step)

\* The frame the slide loop writes at a step.
SlideFrame(current_image, next_image, step) ==
  LET offset == (DisplayWidth * (SLIDE_STEPS - step)) \div SLIDE_STEPS
  IN Paste(Paste(Black, current_image, -offset),
           next_image, DisplayWidth - offset)

\* transition_effect: the display buffer when it returns, that is the frame
\* of the last step of its loop.
transition_effect(buffer, current_image, next_image, effect) ==
  IF effect = "none" THEN next_image
  ELSE IF effect = "fade" THEN
    LET frames == [step \in 0..FADE_STEPS |->
                     FadeFrame(current_image, next_image, step)]
    IN frames[FADE_STEPS]
  ELSE IF effect = "slide" THEN
    LET frames == [step \in 0..SLIDE_STEPS |->
                     SlideFrame(current_image, next_image, step)]
    IN frames[SLIDE_STEPS]
  ELSE buffer

\* ---- sorting
\* os.path.getmtime and os.path.getsize of the files of the directory.
ImageMTime == [f \in GalleryFiles |-> GalleryImages - f]
ImageSize == [f \in GalleryFiles |-> f \div 2]

RECURSIVE StableSort(_, _)
\* sorted(files, key=...): ascending keys, equal keys in the given order.
StableSort(files, key) ==
  IF files = <<>> THEN <<>>
  ELSE LET m == CHOOSE i \in 1..Len(files) :
                  /\ \A j \in 1..Len(files) : key[files[i]] <= key[files[j]]
                  /\ \A j \in 1..(i - 1) : key[files[j]] # key[files[i]]
           Others(rest) == StableSort(rest, key)
       IN <<files[m]>>
            \o Call(Others, SubSeq(files, 1, m - 1)
                              \o SubSeq(files, m + 1, Len(files)))

\* get_sorted_images. shuffle: the order random.shuffle leaves.
get_sorted_images(image_files, sort_method, shuffle) ==
  IF sort_method = "name" THEN SortedSeq(Range(image_files))
  ELSE IF sort_method = "date" THEN StableSort(image_files, ImageMTime)
  ELSE IF sort_method = "size" THEN StableSort(image_files, ImageSize)
  ELSE IF sort_method = "random" THEN shuffle
  ELSE SortedSeq(Range(image_files))

\* ---- settings menu
\* The types of the options of settings_menu, in menu order.
OPTIONS == <<"bool", "bool", "orientation", "transition", "sort", "float",
             "brightness">>

TRANSITIONS == <<"none", "fade", "slide">>
SORT_METHODS == <<"name", "date", "size", "random">>

\* list.index
IndexOf(list, v) == (CHOOSE i \in 1..Len(list) : list[i] = v) - 1

Max(a, b) == IF a >= b THEN a ELSE b

\* change_setting_value with direction = 1
change_setting_value(setting_type, current_value) ==
  IF setting_type = "bool" THEN ~current_value
  ELSE IF setting_type = "orientation" THEN
    IF current_value = "portrait" THEN "landscape" ELSE "portrait"
  ELSE IF setting_type = "transition" THEN
    TRANSITIONS[((IndexOf(TRANSITIONS, current_value) + 1)
                   % Len(TRANSITIONS)) + 1]
  ELSE IF setting_type = "sort" THEN
    SORT_METHODS[((IndexOf(SORT_METHODS, current_value) + 1)
                    % Len(SORT_METHODS)) + 1]
  ELSE IF setting_type = "float" THEN
    Max(DELAY_MIN, Min(DELAY_MAX, current_value + 1))
  ELSE IF setting_type = "brightness" THEN
    Max(BRIGHTNESS_MIN, Min(BRIGHTNESS_MAX, current_value + 1))
  ELSE current_value

\* The locals of settings_menu while no menu is open.
MenuClosed ==
  [active |-> FALSE, selected_index |-> 0, values |-> <<>>,
   menu_start_time |-> 0, prev |-> NoButtons, curr |-> NoButtons]

\* settings_menu up to its loop. curr: the buttons as the interrupted
\* iteration of the main loop read them.
MenuOpened(settings, curr) ==
  [active |-> TRUE, selected_index |-> 0,
   values |-> <<settings.slideshow_mode, settings.show_info,
                settings.orientation, settings.transition,
                settings.sort_method, settings.slide_delay,
                settings.brightness>>,
   menu_start_time |-> 0, prev |-> NoButtons, curr |-> curr]

\* ---- history (not part of the program)
\* x, y: the press of X (of Y) that began in normal mode with no other
\* button down: "down" while it lasts, "long" once the long press was acted
\* on, "short"/"released" once the button was read as up again; `was` is
\* slideshow_mode (show_info) from before the press.
\* nav: the last two changes of current_index ("A", "B" or "S" for the
\* slideshow), each with the index before it.
\* last_write: whether the display buffer was last written by a change of
\* current_index.
\* tm: the presses made in the transform menu since it opened: the button
\* of the last press, how many presses of that button were made in a row
\* (counted up to the number that restores the image), and the flip,
\* orientation and rotation before the first of them.
\* idle: while the settings menu is open, the time since it opened or since
\* the last A, B or X press made in it (counted to one past MENU_TIMEOUT).
\* closed: how the settings menu was last left ("timeout" or "y"; "no"
\* while it is open or was never opened). restarted: an A, B or X press
\* was made in the settings menu some time after it had opened.
NoPress == [phase |-> "idle", was |-> FALSE]

NoTransform ==
  [flip |-> FALSE, orientation |-> "landscape", rotation |-> 0]

NoRun == [op |-> "none", count |-> 0, before |-> NoTransform]

HistInit ==
  [last |-> NoButtons, x |-> NoPress, y |-> NoPress, nav |-> <<>>,
   last_write |-> "other", tm |-> NoRun, idle |-> 0, closed |-> "no",
   restarted |-> FALSE]

\* The number of presses of a button of the transform menu after which the
\* image is as before.
RunLength(k) == IF k = "x" THEN 4 ELSE IF k = "y" THEN 1 ELSE 2

\* tm after an iteration that read c and led from s to t.
TrackTransform(s, t, c) ==
  LET tm == s.hist.tm
      pressed == {k \in {"a", "b", "x", "y"} : c[k] /\ ~s.hist.last[k]}
  IN IF ~s.in_transform_menu
     THEN IF t.in_transform_menu THEN NoRun ELSE tm
     ELSE IF pressed = {} THEN tm
     ELSE IF Cardinality(pressed) > 1 THEN NoRun
     ELSE LET k == CHOOSE b \in pressed : TRUE
          IN IF k = tm.op /\ tm.count < RunLength(k)
             THEN [tm EXCEPT !.count = @ + 1]
             ELSE [op |-> k, count |-> 1,
                   before |-> [flip |-> s.horizontal_flip,
                               orientation |-> s.settings.orientation,
                               rotation |-> s.rotation_angle]]

NavLog(nav, op, before) ==
  LET r == [op |-> op, before |-> before]
  IN IF Len(nav) = 2 THEN <<nav[2], r>> ELSE Append(nav, r)

\* The history after an iteration that read c and led from s to t.
Track(s, t, c) ==
  LET normal == ~s.menu.active /\ ~s.in_transform_menu
      hx == s.hist.x
      hy == s.hist.y
      x == IF c.a \/ c.b \/ c.y THEN NoPress
           ELSE IF c.x THEN
             IF ~s.hist.last.x THEN
               IF normal
               THEN [phase |-> "down", was |-> s.settings.slideshow_mode]
               ELSE NoPress
             ELSE IF hx.phase = "down" /\ ~s.menu.active /\ t.menu.active
               THEN [hx EXCEPT !.phase = "long"]
             ELSE hx
           ELSE IF hx.phase = "down" THEN [hx EXCEPT !.phase = "short"]
           ELSE IF hx.phase = "long" THEN [hx EXCEPT !.phase = "released"]
           ELSE hx
      y == IF c.a \/ c.b \/ c.x THEN NoPress
           ELSE IF c.y THEN
             IF ~s.hist.last.y THEN
               IF normal
               THEN [phase |-> "down", was |-> s.settings.show_info]
               ELSE NoPress
             ELSE IF /\ hy.phase = "down"
                     /\ ~s.in_transform_menu /\ t.in_transform_menu
               THEN [hy EXCEPT !.phase = "long"]
             ELSE hy
           ELSE IF hy.phase = "down" THEN [hy EXCEPT !.phase = "short"]
           ELSE IF hy.phase = "long" THEN [hy EXCEPT !.phase = "released"]
           ELSE hy
      idle == IF s.menu.active /\ t.menu.active
                 /\ ~\E k \in {"a", "b", "x"} : c[k] /\ ~s.menu.prev[k]
              THEN s.hist.idle
              ELSE 0
      closed == IF ~s.menu.active /\ t.menu.active THEN "no"
                ELSE s.hist.closed
      restarted == IF ~s.menu.active /\ t.menu.active THEN FALSE
                   ELSE IF s.menu.active /\ idle = 0 /\ s.hist.idle > 0
                   THEN TRUE
                   ELSE s.hist.restarted
  IN [t EXCEPT !.hist.last = c, !.hist.x = x, !.hist.y = y,
               !.hist.tm = TrackTransform(s, t, c),
               !.hist.idle = idle, !.hist.closed = closed,
               !.hist.restarted = restarted]

\* ---- the main loop
\* The locals of main (and of an open settings_menu, and the history) as
\* one record, so that the parts of an iteration compose as the code runs
\* them.
GSelf ==
  [settings |-> g_settings, image_files |-> g_image_files,
   current_index |-> g_current_index, rotation_angle |-> g_rotation_angle,
   horizontal_flip |-> g_horizontal_flip,
   in_transform_menu |-> g_in_transform_menu, prev |-> g_prev,
   x_press_time |-> g_x_press_time, y_press_time |-> g_y_press_time,
   last_slideshow_time |-> g_last_slideshow_time, buffer |-> g_buffer,
   menu |-> g_menu, hist |-> g_hist]

GIs(s) ==
  /\ g_settings = s.settings
  /\ g_image_files = s.image_files
  /\ g_current_index = s.current_index
  /\ g_rotation_angle = s.rotation_angle
  /\ g_horizontal_flip = s.horizontal_flip
  /\ g_in_transform_menu = s.in_transform_menu
  /\ g_prev = s.prev
  /\ g_x_press_time = s.x_press_time
  /\ g_y_press_time = s.y_press_time
  /\ g_last_slideshow_time = s.last_slideshow_time
  /\ g_buffer = s.buffer
  /\ g_menu = s.menu
  /\ g_hist = s.hist

GSet(s) ==
  /\ g_settings' = s.settings
  /\ g_image_files' = s.image_files
  /\ g_current_index' = s.current_index
  /\ g_rotation_angle' = s.rotation_angle
  /\ g_horizontal_flip' = s.horizontal_flip
  /\ g_in_transform_menu' = s.in_transform_menu
  /\ g_prev' = s.prev
  /\ g_x_press_time' = s.x_press_time
  /\ g_y_press_time' = s.y_press_time
  /\ g_last_slideshow_time' = s.last_slideshow_time
  /\ g_buffer' = s.buffer
  /\ g_menu' = s.menu
  /\ g_hist' = s.hist

\* The largest elapsed time last_slideshow_time counts to: the first that
\* is more than every slide delay.
SlideshowCap == (MaxSlideDelay \div 2) + 1

Age(t, n, cap) == IF t = Unset THEN Unset ELSE Min(t + n, cap)

\* n seconds pass.
Elapse(s, n) ==
  [s EXCEPT !.x_press_time = Age(@, n, LONG_PRESS + 1),
            !.y_press_time = Age(@, n, LONG_PRESS + 1),
            !.last_slideshow_time = Min(@ + n, SlideshowCap),
            !.menu.menu_start_time =
               IF s.menu.active THEN Min(@ + n, MENU_TIMEOUT + 1) ELSE @,
            !.hist.idle =
               IF s.menu.active THEN Min(@ + n, MENU_TIMEOUT + 1) ELSE @]

PrevIndexClamped(index, n) == Max(index - 1, 0)

\* (current_index - 1) % len(image_files)
PrevIndex(index, n) == (index - 1) % n

\* (current_index + 1) % len(image_files)
NextIndex(index, n) == (index + 1) % n

\* new_image = update_display() and the paste that follows it.
g_redraw(s) ==
  [s EXCEPT !.buffer = update_display(s), !.hist.last_write = "other"]

\* The body shared by the A press, the B press and the slideshow advance:
\* copy the buffer, set current_index, draw the new image with the
\* transition of the settings.
g_show(s, index, op) ==
  LET moved == [s EXCEPT !.current_index = index]
      new_image == update_display(moved)
      effect == s.settings.transition
  IN [moved EXCEPT
        !.buffer = IF effect # "none"
                   THEN transition_effect(s.buffer, s.buffer, new_image,
                                          effect)
                   ELSE new_image,
        !.hist.last_write = "advance",
        !.hist.nav = NavLog(@, op, s.current_index)]

RotateNoWrap(angle) == angle + 90

\* rotation_angle = (rotation_angle + 90) % 360
RotateClockwise(angle) == (angle + 90) % 360

\* The transform-menu branch of an iteration.
g_transform_menu(s, c) ==
  IF c.a /\ ~s.prev.a THEN
    g_redraw([s EXCEPT !.horizontal_flip = ~@])
  ELSE IF c.b /\ ~s.prev.b THEN
    g_redraw([s EXCEPT !.settings.orientation =
                IF @ = "landscape" THEN "portrait" ELSE "landscape"])
  ELSE IF c.x /\ ~s.prev.x THEN
    g_redraw([s EXCEPT !.rotation_angle = RotateClockwise(@)])
  ELSE IF c.y /\ ~s.prev.y THEN
    g_redraw([s EXCEPT !.in_transform_menu = FALSE])
  ELSE s

\* Normal mode: the A and B presses.
g_navigate(s, c) ==
  IF c.a /\ ~s.prev.a THEN
    g_show(s, PrevIndex(s.current_index, Len(s.image_files)), "A")
  ELSE IF c.b /\ ~s.prev.b THEN
    g_show(s, NextIndex(s.current_index, Len(s.image_files)), "B")
  ELSE s

\* Normal mode: the X button, up to the call of settings_menu (which draws
\* the menu and enters its loop).
g_x_button(s, c) ==
  IF c.x /\ s.x_press_time = Unset THEN [s EXCEPT !.x_press_time = 0]
  ELSE IF c.x /\ s.x_press_time # Unset /\ s.x_press_time > LONG_PRESS THEN
    [s EXCEPT !.x_press_time = Unset,
              !.menu = MenuOpened(s.settings, c),
              !.buffer = TextScreen,
              !.hist.last_write = "other"]
  ELSE IF ~c.x /\ s.x_press_time # Unset THEN
    IF s.x_press_time < LONG_PRESS THEN
      g_redraw([s EXCEPT !.settings.slideshow_mode = ~@,
                         !.x_press_time = Unset])
    ELSE [s EXCEPT !.x_press_time = Unset]
  ELSE s

\* Normal mode: the Y button. Entering the transform menu sleeps 1.5 s.
g_y_button(s, c) ==
  LET s1 == IF c.y /\ ~s.prev.y
            THEN g_redraw([s EXCEPT !.settings.show_info = ~@])
            ELSE s
  IN IF c.y /\ s1.y_press_time = Unset THEN [s1 EXCEPT !.y_press_time = 0]
     ELSE IF c.y /\ s1.y_press_time # Unset /\ s1.y_press_time > LONG_PRESS
     THEN g_redraw(Elapse([s1 EXCEPT !.in_transform_menu = TRUE,
                                     !.y_press_time = Unset], 1))
     ELSE IF ~c.y /\ s1.y_press_time # Unset
     THEN [s1 EXCEPT !.y_press_time = Unset]
     ELSE s1

\* Normal mode: the slideshow advance.
g_slideshow(s) ==
  IF /\ s.settings.slideshow_mode
     /\ 2 * s.last_slideshow_time > s.settings.slide_delay
  THEN [g_show(s, NextIndex(s.current_index, Len(s.image_files)), "S")
          EXCEPT !.last_slideshow_time = 0]
  ELSE s

\* The end of an iteration without prev_a = curr_a, ...: the buttons stay
\* as they were before the first iteration.
g_end_iteration_stale(s, c) == s

\* The end of an iteration: prev_a = curr_a, ...
g_end_iteration(s, c) == [s EXCEPT !.prev = c]

\* Normal mode from the Y button to the end of the iteration.
g_after_x(s, c) ==
  LET AfterY(t) == g_slideshow(t)
      AfterSlideshow(t) == g_end_iteration(t, c)
  IN Call(AfterSlideshow, Call(AfterY, g_y_button(s, c)))

\* One iteration of the main loop that reads c. When it opens the settings
\* menu it is suspended inside the call.
g_iteration(s, c) ==
  IF s.in_transform_menu THEN
    LET End(t) == g_end_iteration(t, c)
    IN Call(End, g_transform_menu(s, c))
  ELSE
    LET XButton(t) == g_x_button(t, c)
        Rest(t) == IF t.menu.active THEN t ELSE g_after_x(t, c)
    IN Call(Rest, Call(XButton, g_navigate(s, c)))

\* settings_menu returns: the settings take the values, the images are
\* sorted again and drawn, and the suspended iteration goes on with the
\* buttons as it read them.
g_menu_return(s, shuffle) ==
  LET v == s.menu.values
      back == [s EXCEPT
                 !.settings = [slideshow_mode |-> v[1], show_info |-> v[2],
                               orientation |-> v[3], transition |-> v[4],
                               sort_method |-> v[5], slide_delay |-> v[6],
                               brightness |-> v[7]],
                 !.menu = MenuClosed,
                 !.image_files =
                    get_sorted_images(s.image_files, v[5], shuffle),
                 !.hist.idle = 0]
      Redraw(t) == g_redraw(t)
      Rest(t) == g_after_x(t, s.menu.curr)
  IN Call(Rest, Call(Redraw, back))

\* The body of the loop of settings_menu for a reading c (the time-out
\* check at its top has passed); a Y press ends the loop after the body.
g_menu_iteration(s, c, shuffle) ==
  LET m == s.menu
      a == c.a /\ ~m.prev.a
      b == c.b /\ ~m.prev.b
      x == c.x /\ ~m.prev.x
      y == c.y /\ ~m.prev.y
      m1 == IF a THEN
              [m EXCEPT !.selected_index = (@ - 1) % Len(OPTIONS),
                        !.menu_start_time = 0]
            ELSE IF b THEN
              [m EXCEPT !.selected_index = (@ + 1) % Len(OPTIONS),
                        !.menu_start_time = 0]
            ELSE IF x THEN
              [m EXCEPT !.values[m.selected_index + 1] =
                           change_setting_value(
                             OPTIONS[m.selected_index + 1], @),
                        !.menu_start_time = 0]
            ELSE m
      s1 == [s EXCEPT !.menu = [m1 EXCEPT !.prev = c]]
      Return(t) == g_menu_return([t EXCEPT !.hist.closed = "y"], shuffle)
  IN IF ~a /\ ~b /\ ~x /\ y THEN Call(Return, Track(s, s1, c))
     ELSE Track(s, s1, c)

\* The state main reaches before its loop, started with the command line
\* args. last_slideshow_time is taken before the one-second "Loading
\* Gallery" message.
GalleryStart(files, args, shuffle) ==
  LET s0 == [settings |->
               [slideshow_mode |-> args.slideshow,
                show_info |-> args.show_info,
                orientation |-> IF args.portrait THEN "portrait"
                                ELSE "landscape",
                transition |-> args.transition, sort_method |-> args.sort,
                slide_delay |-> args.delay, brightness |-> BRIGHTNESS_MAX],
             image_files |->
               get_sorted_images(SortedSeq(files), args.sort, shuffle),
             current_index |-> 0, rotation_angle |-> 0,
             horizontal_flip |-> FALSE, in_transform_menu |-> FALSE,
             prev |-> NoButtons, x_press_time |-> Unset,
             y_press_time |-> Unset, last_slideshow_time |-> 1,
             buffer |-> Black, menu |-> MenuClosed, hist |-> HistInit]
  IN g_redraw(s0)

\* parse_arguments: the defaults, but --delay 1.0.
DefaultArgs ==
  [slideshow |-> FALSE, show_info |-> TRUE, portrait |-> FALSE,
   transition |-> "none", sort |-> "name", delay |-> DELAY_MIN]

\* The gallery started on a directory of GalleryImages images, with or
\* without --slideshow and --no-info, with any --transition and --delay 1.0.
GalleryInit ==
  \E slideshow \in BOOLEAN, show_info \in BOOLEAN,
     transition \in Range(TRANSITIONS) :
    GIs(GalleryStart(GalleryFiles,
                     [DefaultArgs EXCEPT !.slideshow = slideshow,
                                         !.show_info = show_info,
                                         !.transition = transition],
                     SortedSeq(GalleryFiles)))

GalleryIdle ==
  GIs(GalleryStart(GalleryFiles, DefaultArgs, SortedSeq(GalleryFiles)))

\* A second passes.
GalleryTick ==
  /\ \E next \in {Elapse(GSelf, 1)} : GSet(next)
  /\ UNCHANGED gOthers

\* An iteration of the main loop reads the buttons as c.
GalleryPoll(c) ==
  /\ ~g_menu.active
  /\ \E next \in {g_iteration(GSelf, c)} : GSet(Track(GSelf, next, c))
  /\ UNCHANGED gOthers

MenuTimedOutAtLimit(m) == m.menu_start_time >= MENU_TIMEOUT

\* time.time() - menu_start_time > MENU_TIMEOUT
MenuTimedOut(m) == m.menu_start_time > MENU_TIMEOUT

\* An iteration of the loop of settings_menu: it leaves the menu when the
\* time-out has passed and else reads the buttons as c. The slide delay is
\* not raised beyond MaxSlideDelay.
GalleryMenuPoll(c, shuffle) ==
  /\ g_menu.active
  /\ ~(/\ ~MenuTimedOut(g_menu)
       /\ ~(c.a /\ ~g_menu.prev.a) /\ ~(c.b /\ ~g_menu.prev.b)
       /\ c.x /\ ~g_menu.prev.x
       /\ OPTIONS[g_menu.selected_index + 1] = "float"
       /\ g_menu.values[g_menu.selected_index + 1] >= MaxSlideDelay)
  /\ \E next \in {IF MenuTimedOut(g_menu)
                  THEN g_menu_return(
                         [GSelf EXCEPT !.hist.closed = "timeout"], shuffle)
                  ELSE g_menu_iteration(GSelf, c, shuffle)} : GSet(next)
  /\ UNCHANGED gOthers

\* The readings in which only A and B are pressed, and those in which
\* only X and Y are.
NavReadings == {c \in Readings : ~c.x /\ ~c.y}
PressReadings == {c \in Readings : ~c.a /\ ~c.b}

\* The user browses: only A and B are pressed, so that no menu opens.
GalleryNavNext ==
  \/ GalleryTick
  \/ \E c \in NavReadings : GalleryPoll(c)

\* The user presses only X and Y, for any length of time: the settings menu
\* and the transform menu open and close.
GalleryPressNext ==
  \/ GalleryTick
  \/ \E c \in PressReadings : GalleryPoll(c)
  \/ \E c \in PressReadings, shuffle \in Orders(GalleryFiles) :
       GalleryMenuPoll(c, shuffle)

\* The user opens the transform menu with Y (in normal mode only Y is
\* pressed) and presses any button in it.
TransformReadings ==
  {c \in Readings : g_in_transform_menu \/ (~c.a /\ ~c.b /\ ~c.x)}

GalleryTransformNext ==
  \/ GalleryTick
  \/ \E c \in TransformReadings : GalleryPoll(c)

\* An iteration of the main loop that reads no button as pressed.
GalleryIdlePoll == GalleryPoll(NoButtons)

\* The user browses with A and B, or leaves the buttons alone.
GallerySlideshowNext ==
  \/ GalleryTick
  \/ GalleryIdlePoll
  \/ \E c \in NavReadings \ {NoButtons} : GalleryPoll(c)

\* The user opens the settings menu with X (in normal mode only X is
\* pressed) and presses the buttons one at a time in it, X only on the
\* entries that are switched on and off.
MenuReadings ==
  {c \in Readings :
     IF g_menu.active
     THEN /\ Held(c) <= 1
          /\ c.x => OPTIONS[g_menu.selected_index + 1] = "bool"
     ELSE ~c.a /\ ~c.b /\ ~c.y}

\* The orders random.shuffle can leave the files in; only sort method
\* 'random' reads them.
MenuShuffles ==
  IF g_menu.active /\ g_menu.values[5] = "random" THEN Orders(GalleryFiles)
  ELSE {SortedSeq(GalleryFiles)}

\* An iteration of the loop of settings_menu that reads no button as
\* pressed, or finds the time-out passed.
GalleryMenuIdlePoll ==
  \E shuffle \in MenuShuffles : GalleryMenuPoll(NoButtons, shuffle)

GalleryMenuNext ==
  \/ GalleryTick
  \/ \E c \in MenuReadings : GalleryPoll(c)
  \/ \E c \in MenuReadings, shuffle \in MenuShuffles :
       GalleryMenuPoll(c, shuffle)

\* ================================================================ glitch.py
\* The images a transition is called with.
TransitionImages == {Picture(code) : code \in 1..MaxImages}

\* The value of a pixel that the corruption of the JPEG bytes has changed.
Noise == 0

\* apply_glitch: the image itself when the bytes cannot be decoded or none
\* was replaced, else the image with pixels changed by the corruption.
apply_glitch(img) ==
  {img} \cup {[img EXCEPT ![c] = Noise] : c \in Columns}

\* Image.blend(im1, im2, i / half)
BlendRatio(im1, im2, i, half) ==
  [c \in Columns |-> (im1[c] * (half - i) + im2[c] * i) \div half]

FallbackFrameCurrent(current, next_image) == current

\* The frame the except clause writes: clean_buffer with next_image pasted.
FallbackFrame(current, next_image) == Paste(Black, next_image, 0)

\* The frame written after the second phase: final_buffer with next_img
\* pasted.
FinalFrame(next_img) == Paste(Black, next_img, 0)

GlitchIdle ==
  /\ gl_pc = "idle"
  /\ gl_frames = 0
  /\ gl_current = Black
  /\ gl_next = Black
  /\ gl_i = 0
  /\ gl_final_glitched = Black
  /\ gl_buffer = Black
  /\ gl_caught = "none"

\* glitch_transition is called, with the display showing current_image.
GlitchStart(frames, current_image, next_image) ==
  /\ gl_pc = "idle"
  /\ gl_pc' = "phase1"
  /\ gl_frames' = frames
  /\ gl_current' = current_image
  /\ gl_next' = next_image
  /\ gl_i' = 0
  /\ gl_buffer' = current_image
  /\ UNCHANGED <<gl_final_glitched, gl_caught, glOthers>>

\* An iteration of the first loop writes a glitched current image; the loop
\* ends after frames // 2 iterations.
GlitchPhase1 ==
  /\ gl_pc = "phase1"
  /\ IF gl_i < gl_frames \div 2
     THEN /\ \E glitched \in apply_glitch(gl_current) :
               gl_buffer' = Paste(Black, glitched, 0)
          /\ gl_i' = gl_i + 1
          /\ UNCHANGED gl_pc
     ELSE /\ gl_pc' = "final_glitch"
          /\ UNCHANGED <<gl_i, gl_buffer>>
  /\ UNCHANGED <<gl_frames, gl_current, gl_next, gl_final_glitched,
                 gl_caught, glOthers>>

\* final_glitched = apply_glitch(current, threshold_end)
GlitchFinalGlitched ==
  /\ gl_pc = "final_glitch"
  /\ gl_final_glitched' \in apply_glitch(gl_current)
  /\ gl_pc' = "phase2"
  /\ gl_i' = 0
  /\ UNCHANGED <<gl_frames, gl_current, gl_next, gl_buffer, gl_caught,
                 glOthers>>

\* An iteration of the second loop: alpha = i / (frames // 2) raises
\* ZeroDivisionError when frames // 2 is 0, else the blend is written; the
\* loop ends after frames // 2 + 1 iterations.
GlitchPhase2 ==
  /\ gl_pc = "phase2"
  /\ IF gl_i < gl_frames \div 2 + 1
     THEN IF gl_frames \div 2 = 0
          THEN /\ gl_pc' = "except"
               /\ gl_caught' = "ZeroDivisionError"
               /\ UNCHANGED <<gl_i, gl_buffer>>
          ELSE /\ gl_buffer' =
                    Paste(Black,
                          BlendRatio(gl_final_glitched, gl_next, gl_i,
                                     gl_frames \div 2), 0)
               /\ gl_i' = gl_i + 1
               /\ UNCHANGED <<gl_pc, gl_caught>>
     ELSE /\ gl_pc' = "final"
          /\ UNCHANGED <<gl_i, gl_buffer, gl_caught>>
  /\ UNCHANGED <<gl_frames, gl_current, gl_next, gl_final_glitched,
                 glOthers>>

\* The final frame is written and the function returns.
GlitchFinal ==
  /\ gl_pc = "final"
  /\ gl_buffer' = FinalFrame(gl_next)
  /\ gl_pc' = "returned"
  /\ UNCHANGED <<gl_frames, gl_current, gl_next, gl_i, gl_final_glitched,
                 gl_caught, glOthers>>

\* An operation inside the try block (a paste, a blend, display.display(),
\* process_events) raises an exception, before the next frame is written.
GlitchRaise ==
  /\ gl_pc \in {"phase1", "final_glitch", "phase2", "final"}
  /\ gl_pc' = "except"
  /\ gl_caught' = "other"
  /\ UNCHANGED <<gl_frames, gl_current, gl_next, gl_i, gl_final_glitched,
                 gl_buffer, glOthers>>

\* The except clause writes next_image; display.display() after the write
\* returns, or raises again and the exception leaves the function.
GlitchFallback(display_raises) ==
  /\ gl_pc = "except"
  /\ gl_buffer' = FallbackFrame(gl_current, gl_next)
  /\ gl_pc' = IF display_raises THEN "raised" ELSE "returned"
  /\ UNCHANGED <<gl_frames, gl_current, gl_next, gl_i, gl_final_glitched,
                 gl_caught, glOthers>>

GlitchNext ==
  \/ \E frames \in 0..MaxFrames, current_image \in TransitionImages,
        next_image \in TransitionImages :
       GlitchStart(frames, current_image, next_image)
  \/ GlitchPhase1
  \/ GlitchFinalGlitched
  \/ GlitchPhase2
  \/ GlitchFinal
  \/ GlitchRaise
  \/ \E display_raises \in BOOLEAN : GlitchFallback(display_raises)

\* ================================================================= ascii.py
\* The value of a white pixel.
White == 255

\* The images ascii_transition is called with: pictures and the black
\* image.
AsciiImages == TransitionImages \cup {Black}

\* image_to_ascii: white characters on black. A black pixel is drawn as a
\* space, every other as a character; with invert it is a white pixel that
\* is drawn as a space.
image_to_ascii(image, invert) ==
  [c \in Columns |->
     IF image[c] = (IF invert THEN White ELSE 0) THEN 0 ELSE White]

AsciiIdle ==
  /\ as_pc = "idle"
  /\ as_frames = 0
  /\ as_invert = FALSE
  /\ as_current = Black
  /\ as_next = Black
  /\ as_i = 0
  /\ as_buffer = Black

\* ascii_transition is called, with the display showing current_image.
AsciiStart(frames, invert, current_image, next_image) ==
  /\ as_pc = "idle"
  /\ as_pc' = "phase1"
  /\ as_frames' = frames
  /\ as_invert' = invert
  /\ as_current' = current_image
  /\ as_next' = next_image
  /\ as_i' = 0
  /\ as_buffer' = current_image
  /\ UNCHANGED asOthers

\* An iteration of the first loop: the blend of the current image with its
\* ASCII version at alpha * 2 in the first half, of the two ASCII versions
\* in the second (a division by frames // 2, which is 0 for frames = 1);
\* the loop ends after frames iterations.
AsciiPhase1 ==
  /\ as_pc = "phase1"
  /\ LET half == as_frames \div 2
         current_ascii == image_to_ascii(as_current, as_invert)
         next_ascii == image_to_ascii(as_next, as_invert)
     IN IF as_i < as_frames
        THEN IF as_i < half
             THEN /\ as_buffer' = BlendRatio(as_current, current_ascii,
                                             2 * as_i, as_frames)
                  /\ as_i' = as_i + 1
                  /\ UNCHANGED as_pc
             ELSE IF half = 0
             THEN /\ as_pc' = "raised"
                  /\ UNCHANGED <<as_i, as_buffer>>
             ELSE /\ as_buffer' = BlendRatio(current_ascii, next_ascii,
                                             as_i - half, half)
                  /\ as_i' = as_i + 1
                  /\ UNCHANGED as_pc
        ELSE /\ as_pc' = "phase2"
             /\ as_i' = 0
             /\ UNCHANGED as_buffer
  /\ UNCHANGED <<as_frames, as_invert, as_current, as_next, asOthers>>

\* An iteration of the second loop: the blend of the ASCII version of the
\* next image with the next image at alpha = i / frames; after frames
\* iterations the function returns.
AsciiPhase2 ==
  /\ as_pc = "phase2"
  /\ IF as_i < as_frames
     THEN /\ as_buffer' =
               BlendRatio(image_to_ascii(as_next, as_invert), as_next,
                          as_i, as_frames)
          /\ as_i' = as_i + 1
          /\ UNCHANGED as_pc
     ELSE /\ as_pc' = "returned"
          /\ UNCHANGED <<as_i, as_buffer>>
  /\ UNCHANGED <<as_frames, as_invert, as_current, as_next, asOthers>>

AsciiNext ==
  \/ \E frames \in 0..MaxFrames, invert \in BOOLEAN,
        current_image \in AsciiImages, next_image \in AsciiImages :
       AsciiStart(frames, invert, current_image, next_image)
  \/ AsciiPhase1
  \/ AsciiPhase2

\* ====================================================== slideshow-script.py
\* Times are kept as the time passed since, counted to one past the delay.
SsAge(t) == Min(t + 1, SLIDE_DELAY + 1)

\* main up to its loop, started with --transition mode on a directory of
\* MaxImages images: the first image is shown.
SlideshowStart(mode) ==
  /\ ss_pc = "loop"
  /\ ss_paused = FALSE
  /\ ss_current_index = 0
  /\ ss_last_change_time = 0
  /\ ss_current_time = 0
  /\ ss_transition_mode = mode
  /\ ss_show_info = TRUE
  /\ ss_next = 0
  /\ ss_buffer = 0
  /\ ss_hist = [step |-> "start", resumed |-> Unset]

SlideshowInit == \E mode \in 0..2 : SlideshowStart(mode)

SlideshowIdle == SlideshowStart(0)

\* A tick of the clock.
SlideshowTick ==
  /\ ss_last_change_time' = SsAge(ss_last_change_time)
  /\ ss_current_time' = SsAge(ss_current_time)
  /\ ss_hist' = [step |-> "tick",
                 resumed |-> IF ss_hist.resumed = Unset THEN Unset
                             ELSE SsAge(ss_hist.resumed)]
  /\ UNCHANGED <<ss_pc, ss_paused, ss_current_index, ss_transition_mode,
                 ss_show_info, ss_next, ss_buffer, ssOthers>>

\* button_callback for a press of A or B: the index moves, the change is
\* timed and update_display draws the image.
SlideshowNavigate(pin) ==
  /\ ss_current_index' =
       (IF pin = "A" THEN ss_current_index - 1 ELSE ss_current_index + 1)
         % MaxImages
  /\ ss_last_change_time' = 0
  /\ ss_buffer' = ss_current_index'
  /\ ss_hist' = [ss_hist EXCEPT !.step = pin]
  /\ UNCHANGED <<ss_pc, ss_paused, ss_current_time, ss_transition_mode,
                 ss_show_info, ss_next, ssOthers>>

\* button_callback for a press of X: paused is toggled, and on a resume
\* last_change_time is set to the time of the press.
SlideshowPause ==
  /\ ss_paused' = ~ss_paused
  /\ ss_last_change_time' = IF ss_paused' THEN ss_last_change_time ELSE 0
  /\ ss_hist' = [step |-> "X",
                 resumed |-> IF ss_paused' THEN Unset ELSE 0]
  /\ UNCHANGED <<ss_pc, ss_current_index, ss_current_time,
                 ss_transition_mode, ss_show_info, ss_next, ss_buffer,
                 ssOthers>>

\* button_callback for a press of Y: the info overlay is toggled and the
\* image drawn again when paused, else the transition is changed.
SlideshowToggle ==
  /\ IF ss_paused
     THEN /\ ss_show_info' = ~ss_show_info
          /\ ss_buffer' = ss_current_index
          /\ UNCHANGED ss_transition_mode
     ELSE /\ ss_transition_mode' = (ss_transition_mode + 1) % 3
          /\ UNCHANGED <<ss_show_info, ss_buffer>>
  /\ ss_hist' = [ss_hist EXCEPT !.step = "Y"]
  /\ UNCHANGED <<ss_pc, ss_paused, ss_current_index, ss_last_change_time,
                 ss_current_time, ss_next, ssOthers>>

\* The top of an iteration of the main loop: current_time is read and, when
\* not paused and the delay has passed, the index is advanced and the next
\* image loaded; else the iteration sleeps.
SlideshowCheck ==
  /\ ss_pc = "loop"
  /\ ss_current_time' = 0
  /\ IF ~ss_paused /\ ss_last_change_time > SLIDE_DELAY
     THEN /\ ss_current_index' = (ss_current_index + 1) % MaxImages
          /\ ss_next' = ss_current_index'
          /\ ss_pc' = "transition"
          /\ ss_hist' = [step |-> "advance", resumed |-> Unset]
     ELSE /\ ss_hist' = [ss_hist EXCEPT !.step = "sleep"]
          /\ UNCHANGED <<ss_current_index, ss_next, ss_pc>>
  /\ UNCHANGED <<ss_paused, ss_last_change_time, ss_transition_mode,
                 ss_show_info, ss_buffer, ssOthers>>

\* The frames of the transition (fade ends at alpha 1.0, slide at offset
\* width, none pastes the image): the buffer ends on the loaded image.
SlideshowTransition ==
  /\ ss_pc = "transition"
  /\ ss_buffer' = ss_next
  /\ ss_pc' = "end"
  /\ ss_hist' = [ss_hist EXCEPT !.step = "frames"]
  /\ UNCHANGED <<ss_paused, ss_current_index, ss_last_change_time,
                 ss_current_time, ss_transition_mode, ss_show_info, ss_next,
                 ssOthers>>

\* last_change_time = current_time, and the sleep that ends the iteration.
SlideshowEndAdvance ==
  /\ ss_pc = "end"
  /\ ss_last_change_time' = ss_current_time
  /\ ss_pc' = "loop"
  /\ ss_hist' = [step |-> "end", resumed |-> ss_hist.resumed]
  /\ UNCHANGED <<ss_paused, ss_current_index, ss_current_time,
                 ss_transition_mode, ss_show_info, ss_next, ss_buffer,
                 ssOthers>>

SlideshowNext ==
  \/ SlideshowTick
  \/ \E pin \in {"A", "B"} : SlideshowNavigate(pin)
  \/ SlideshowPause
  \/ SlideshowToggle
  \/ SlideshowCheck
  \/ SlideshowTransition
  \/ SlideshowEndAdvance

\* ========================================================= upload_to_atlas.py
\* atlas_info.json is absent, or holds no map_id.
NoInfo == [exists |-> FALSE, map_id |-> "None"]

\* The file save_atlas_info writes.
InfoFile(map_id) == [exists |-> TRUE, map_id |-> map_id]

\* load_atlas_info(...).get('map_id')
ua_load_map_id(info) == IF info.exists THEN info.map_id ELSE "None"

ResolveMapIdStoredFirst(new_map, map_id, info) ==
  IF ~new_map /\ ua_load_map_id(info) # "None" THEN ua_load_map_id(info)
  ELSE map_id

\* map_id after lines 117-119: the info file is read only without --new-map
\* and without --map-id.
ResolveMapId(new_map, map_id, info) ==
  IF ~new_map /\ map_id = "None" THEN ua_load_map_id(info) ELSE map_id

\* find_jsonl_files
ua_find_jsonl_files(dir) == SortedSeq({f \in Files : dir[f] # "absent"})

NoCall == [call |-> "none", identifier |-> "None", outcome |-> "none"]

UploadInitWith(info) ==
  /\ ua_dir = [f \in Files |-> "absent"]
  /\ ua_info = info
  /\ ua_pc = "idle"
  /\ ua_new_map = FALSE
  /\ ua_map_id = "None"
  /\ ua_all_data = {}
  /\ ua_hist = [new_map |-> FALSE, map_id_arg |-> "None", stored |-> "None",
                atlas |-> NoCall]

\* The embeddings directory is empty; it may hold the atlas_info.json of an
\* earlier upload.
UploadInit == \E info \in {NoInfo, InfoFile("stored-map")} : UploadInitWith(info)

UploadIdle == UploadInitWith(NoInfo)

\* The environment puts a JSONL file into the embeddings directory.
UploadAddFile(f, content) ==
  /\ ua_pc = "idle"
  /\ ua_dir[f] = "absent"
  /\ ua_dir' = [ua_dir EXCEPT ![f] = content]
  /\ UNCHANGED <<ua_info, ua_pc, ua_new_map, ua_map_id, ua_all_data,
                 ua_hist, uaOthers>>

\* main up to the try block. It returns before when no JSONL file is found
\* or none holds an embedding.
UploadStart(new_map, map_id_arg) ==
  /\ ua_pc = "idle"
  /\ LET jsonl_files == ua_find_jsonl_files(ua_dir)
         all_data == {f \in Range(jsonl_files) : ua_dir[f] = "valid"}
     IN /\ ua_new_map' = new_map
        /\ ua_hist' = [new_map |-> new_map, map_id_arg |-> map_id_arg,
                       stored |-> ua_load_map_id(ua_info), atlas |-> NoCall]
        /\ IF jsonl_files = <<>>
           THEN /\ ua_map_id' = map_id_arg
                /\ ua_all_data' = {}
                /\ UNCHANGED ua_pc
           ELSE /\ ua_map_id' = ResolveMapId(new_map, map_id_arg, ua_info)
                /\ ua_all_data' = all_data
                /\ ua_pc' = IF all_data = {} THEN "idle" ELSE "upload"
  /\ UNCHANGED <<ua_dir, ua_info, uaOthers>>

\* The try block: atlas.map_data creates a map or updates map_id, and when
\* it has returned save_atlas_info writes the info file (saved: whether the
\* write succeeds); an exception is printed.
UploadCall(outcome, saved) ==
  /\ ua_pc = "upload"
  /\ LET creates == ua_new_map \/ ua_map_id = "None"
         map_id == IF creates THEN "new-map" ELSE ua_map_id
     IN /\ ua_hist' = [ua_hist EXCEPT
                         !.atlas = [call |-> IF creates THEN "create"
                                             ELSE "update",
                                    identifier |-> IF creates THEN "None"
                                                   ELSE ua_map_id,
                                    outcome |-> outcome]]
        /\ IF outcome = "ok"
           THEN /\ ua_map_id' = map_id
                /\ ua_info' = IF saved THEN InfoFile(map_id) ELSE ua_info
           ELSE UNCHANGED <<ua_map_id, ua_info>>
  /\ ua_pc' = "idle"
  /\ UNCHANGED <<ua_dir, ua_new_map, ua_all_data, uaOthers>>

UploadNext ==
  \/ \E f \in Files, content \in {"valid", "empty"} : UploadAddFile(f, content)
  \/ \E new_map \in BOOLEAN, map_id_arg \in {"None", "cli-map"} :
       UploadStart(new_map, map_id_arg)
  \/ \E outcome \in {"ok", "raise"}, saved \in BOOLEAN :
       UploadCall(outcome, saved)

\* ========================================================= process_images.py
\* str(Path(...)): a path is the components of its directory and its file
\* name, and Path drops the components ".".
PathStr(path) ==
  [path EXCEPT !.dir = SelectSeq(@, LAMBDA part : part # ".")]

\* str(f) of a file that input_path.glob returns.
ImagePath(f) == PathStr([dir |-> <<"data", "images">>, name |-> f])

\* find_image_files: the paths of the image files of the directory, sorted.
pi_find_image_files(dir) ==
  LET names == SortedSeq(dir)
  IN [i \in 1..Len(names) |-> ImagePath(names[i])]

\* get_processed_files: the metadata.filepath of every record of the JSONL
\* files of the output directory.
get_processed_files(output) == output

pi_processed_files_none(force_reprocess, output) == {}

\* processed_files = set() if force_reprocess else get_processed_files(...)
pi_processed_files(force_reprocess, output) ==
  IF force_reprocess THEN {} ELSE get_processed_files(output)

\* get_file_metadata(file_path)["filepath"]
pi_filepath(file_path) == PathStr(file_path)

NoRunYet ==
  [ran |-> FALSE, found |-> {}, recorded |-> {}, embedded |-> {},
   failed |-> {}, failed_before |-> {}]

ProcessInit ==
  /\ pi_images = {}
  /\ pi_output = {}
  /\ pi_pc = "idle"
  /\ pi_force = FALSE
  /\ pi_batch_size = 1
  /\ pi_new_image_files = <<>>
  /\ pi_batch_start = 0
  /\ pi_hist = NoRunYet

\* The environment puts a new image file into the image directory.
ProcessAddImage(f) ==
  /\ pi_pc = "idle"
  /\ f \notin pi_images
  /\ pi_images' = pi_images \cup {f}
  /\ UNCHANGED <<pi_output, pi_pc, pi_force, pi_batch_size,
                 pi_new_image_files, pi_batch_start, pi_hist, piOthers>>

\* main up to the call of process_images. It returns before when no image
\* is found or none is new.
ProcessStart(force_reprocess, batch_size) ==
  /\ pi_pc = "idle"
  /\ LET all_image_files == pi_find_image_files(pi_images)
         processed_files == pi_processed_files(force_reprocess, pi_output)
         new_image_files ==
           SelectSeq(all_image_files, LAMBDA f : f \notin processed_files)
     IN /\ pi_new_image_files' = new_image_files
        /\ pi_pc' = IF new_image_files = <<>> THEN "idle" ELSE "batches"
        /\ pi_hist' = [ran |-> TRUE, found |-> Range(all_image_files),
                       recorded |-> pi_output, embedded |-> {},
                       failed |-> {},
                       failed_before |-> pi_hist.failed \ pi_output]
  /\ pi_force' = force_reprocess
  /\ pi_batch_size' = batch_size
  /\ pi_batch_start' = 0
  /\ UNCHANGED <<pi_images, pi_output, piOthers>>

\* An iteration of the loop of process_images: embed.image is given the
\* batch; when it (or get_file_metadata) raises the batch is skipped, else
\* a record for every file of the batch is appended to the output file. The
\* run ends after the last batch.
ProcessBatch(outcome) ==
  /\ pi_pc = "batches"
  /\ LET batch_end == Min(pi_batch_start + pi_batch_size,
                          Len(pi_new_image_files))
         batch_files == Slice(pi_new_image_files, pi_batch_start, batch_end)
     IN /\ pi_output' =
             IF outcome = "ok"
             THEN pi_output \cup {pi_filepath(f) : f \in Range(batch_files)}
             ELSE pi_output
        /\ pi_hist' = [pi_hist EXCEPT
                         !.embedded = @ \cup Range(batch_files),
                         !.failed = IF outcome = "ok" THEN @
                                    ELSE @ \cup Range(batch_files)]
        /\ pi_batch_start' = pi_batch_start + pi_batch_size
        /\ pi_pc' = IF pi_batch_start' < Len(pi_new_image_files)
                    THEN "batches" ELSE "idle"
  /\ UNCHANGED <<pi_images, pi_force, pi_batch_size, pi_new_image_files,
                 piOthers>>

ProcessNext ==
  \/ \E f \in Files : ProcessAddImage(f)
  \/ \E force_reprocess \in BOOLEAN, batch_size \in 1..MaxBatch :
       ProcessStart(force_reprocess, batch_size)
  \/ \E outcome \in {"ok", "raise"} : ProcessBatch(outcome)

\* =========================== atlas_uploader.py, observer thread and main loop
\* main starts a watchdog Observer (lines 227-229): a thread of its own that
\* calls on_created, while the main thread calls run_periodic_tasks once a
\* second. Both work on the one AtlasUploader. A thread can be suspended
\* between any two statements; the steps below are the statements that read
\* or write the shared fields.
Threads == {"main", "observer"}

\* No file: the thread is not inside upload_file.
NoFile == 0

\* Where a thread goes on when its process_pending call returns: the main
\* thread to line 194 of run_periodic_tasks, the observer to its next event.
AfterPending(t) == IF t = "main" THEN "save" ELSE "idle"

ThreadsIdle ==
  /\ at_pc = [t \in Threads |-> "idle"]
  /\ at_filepath = [t \in Threads |-> NoFile]
  /\ at_new_files = <<>>
  /\ at_creating = [t \in Threads |-> FALSE]
  /\ at_again = {}

\* A .jsonl file appears in the embeddings directory.
ThreadCreateFile(f) ==
  /\ Cardinality(au_dir) < MaxWatched
  /\ UploaderCreateFile(f)

\* main up to observer.start(): AtlasUploader.__init__ with its initial
\* scan, run before the observer thread exists.
ThreadStart(map_id_arg, all_files, outcome) ==
  /\ at_pc["main"] = "idle"
  /\ UploaderStart(map_id_arg, all_files, outcome)

\* Observer thread, on_created up to line 84: the created file is appended
\* to pending_files.
ThreadOnCreated(f) ==
  /\ au_running
  /\ at_pc["observer"] = "idle"
  /\ f \in au_events
  /\ au_events' = au_events \ {f}
  /\ au_pending_files' = Append(au_pending_files, f)
  /\ at_pc' = [at_pc EXCEPT !["observer"] = "process_pending"]
  /\ UNCHANGED <<atOthers, au_dir, au_info, au_running, au_map_id,
                 au_processed_files, au_since_scan, au_uploaded_run,
                 au_uploaded_earlier, au_retry_due, au_ever_failed,
                 at_filepath, at_new_files, at_creating, at_again>>

\* Main thread: sleep(1), run_periodic_tasks, _scan_for_new_files up to
\* line 100 (new_files is computed from the fields as they are now).
ThreadScan(all_files) ==
  /\ au_running
  /\ at_pc["main"] = "idle"
  /\ IF au_since_scan + 1 < WatchInterval
     THEN /\ au_since_scan' = au_since_scan + 1
          /\ at_new_files' = <<>>
          /\ at_pc' = [at_pc EXCEPT !["main"] = "save"]
     ELSE /\ au_since_scan' = 0
          /\ at_new_files' =
               SelectSeq(all_files,
                         LAMBDA f : /\ f \notin au_processed_files
                                    /\ f \notin Range(au_pending_files))
          /\ at_pc' = [at_pc EXCEPT !["main"] = "extend"]
  /\ UNCHANGED <<atOthers, au_dir, au_info, au_running, au_events, au_map_id,
                 au_processed_files, au_pending_files, au_uploaded_run,
                 au_uploaded_earlier, au_retry_due, au_ever_failed,
                 at_filepath, at_creating, at_again>>

\* Main thread, lines 101-104 of _scan_for_new_files.
ThreadExtend ==
  /\ au_running
  /\ at_pc["main"] = "extend"
  /\ IF at_new_files # <<>>
     THEN /\ au_pending_files' = au_pending_files \o at_new_files
          /\ at_pc' = [at_pc EXCEPT !["main"] = "process_pending"]
     ELSE /\ au_pending_files' = au_pending_files
          /\ at_pc' = [at_pc EXCEPT !["main"] = "save"]
  /\ at_new_files' = <<>>
  /\ UNCHANGED <<atOthers, au_dir, au_info, au_running, au_events, au_map_id,
                 au_processed_files, au_since_scan, au_uploaded_run,
                 au_uploaded_earlier, au_retry_due, au_ever_failed,
                 at_filepath, at_creating, at_again>>

\* Main thread, lines 194-195 of run_periodic_tasks.
\* save_window: whether time.time() % 300 < 10.
ThreadSave(save_window) ==
  /\ au_running
  /\ at_pc["main"] = "save"
  /\ au_info' = IF au_map_id # "None" /\ save_window THEN au_map_id
                ELSE au_info
  /\ at_pc' = [at_pc EXCEPT !["main"] = "idle"]
  /\ UNCHANGED <<atOthers, au_dir, au_running, au_events, au_map_id,
                 au_processed_files, au_pending_files, au_since_scan,
                 au_uploaded_run, au_uploaded_earlier, au_retry_due,
                 au_ever_failed, at_filepath, at_new_files, at_creating,
                 at_again>>

\* process_pending, line 108.
ThreadPendingCheck(t) ==
  /\ au_running
  /\ at_pc[t] = "process_pending"
  /\ at_pc' = [at_pc EXCEPT ![t] = IF au_pending_files = <<>>
                                   THEN AfterPending(t) ELSE "pop"]
  /\ UNCHANGED <<atOthers, auVars, at_filepath, at_new_files, at_creating,
                 at_again>>

\* process_pending, line 112. pop(0) of an empty list raises IndexError,
\* which nothing catches: it ends the observer thread, or the main thread
\* and with it the process.
ThreadPop(t) ==
  /\ au_running
  /\ at_pc[t] = "pop"
  /\ IF au_pending_files = <<>>
     THEN /\ at_pc' = [at_pc EXCEPT ![t] = "died"]
          /\ au_running' = (t # "main")
          /\ UNCHANGED <<au_pending_files, at_filepath>>
     ELSE /\ at_pc' = [at_pc EXCEPT ![t] = "upload_file"]
          /\ at_filepath' = [at_filepath EXCEPT ![t] = Head(au_pending_files)]
          /\ au_pending_files' = Tail(au_pending_files)
          /\ UNCHANGED au_running
  /\ UNCHANGED <<atOthers, au_dir, au_info, au_events, au_map_id,
                 au_processed_files, au_since_scan, au_uploaded_run,
                 au_uploaded_earlier, au_retry_due, au_ever_failed,
                 at_new_files, at_creating, at_again>>

\* upload_file, line 117.
ThreadUploadCheck(t) ==
  /\ au_running
  /\ at_pc[t] = "upload_file"
  /\ IF at_filepath[t] \in au_processed_files
     THEN /\ at_pc' = [at_pc EXCEPT ![t] = AfterPending(t)]
          /\ at_filepath' = [at_filepath EXCEPT ![t] = NoFile]
     ELSE /\ at_pc' = [at_pc EXCEPT ![t] = "load"]
          /\ UNCHANGED at_filepath
  /\ UNCHANGED <<atOthers, auVars, at_new_files, at_creating, at_again>>

\* upload_file, lines 122-159: the file is read ("empty": it holds no
\* record, "raise": reading it raises) and atlas.map_data is called, with
\* or without an id as self.map_id is now.
ThreadLoad(t, outcome) ==
  /\ au_running
  /\ at_pc[t] = "load"
  /\ CASE outcome = "empty" ->
            /\ au_processed_files' = au_processed_files \cup {at_filepath[t]}
            /\ at_pc' = [at_pc EXCEPT ![t] = AfterPending(t)]
            /\ at_filepath' = [at_filepath EXCEPT ![t] = NoFile]
            /\ UNCHANGED <<au_pending_files, at_creating>>
       [] outcome = "ok" ->
            /\ at_creating' = [at_creating EXCEPT ![t] = (au_map_id = "None")]
            /\ at_pc' = [at_pc EXCEPT ![t] = "map_data"]
            /\ UNCHANGED <<au_processed_files, au_pending_files, at_filepath>>
       [] OTHER ->
            /\ au_pending_files' = Append(au_pending_files, at_filepath[t])
            /\ at_pc' = [at_pc EXCEPT ![t] = AfterPending(t)]
            /\ at_filepath' = [at_filepath EXCEPT ![t] = NoFile]
            /\ UNCHANGED <<au_processed_files, at_creating>>
  /\ UNCHANGED <<atOthers, au_dir, au_info, au_running, au_events, au_map_id,
                 au_since_scan, au_uploaded_run, au_uploaded_earlier,
                 au_retry_due, au_ever_failed, at_new_files, at_again>>

\* upload_file, the end of the atlas.map_data call and lines 167-178.
\* outcome "ok": it returns, and the thread that created a map stores its id
\* and writes the info file; "raise": it raises and line 186 puts the file
\* back. The ids of two created maps are not told apart.
ThreadMapData(t, outcome) ==
  /\ au_running
  /\ at_pc[t] = "map_data"
  /\ IF outcome = "ok"
     THEN /\ at_again' = at_again \cup ({at_filepath[t]} \cap au_uploaded_run)
          /\ au_uploaded_run' = au_uploaded_run \cup {at_filepath[t]}
          /\ au_map_id' = IF at_creating[t] THEN "map" ELSE au_map_id
          /\ au_info' = IF at_creating[t] THEN "map" ELSE au_info
          /\ at_pc' = [at_pc EXCEPT ![t] = "mark"]
          /\ UNCHANGED <<au_pending_files, at_filepath>>
     ELSE /\ au_pending_files' = Append(au_pending_files, at_filepath[t])
          /\ at_pc' = [at_pc EXCEPT ![t] = AfterPending(t)]
          /\ at_filepath' = [at_filepath EXCEPT ![t] = NoFile]
          /\ UNCHANGED <<au_uploaded_run, au_map_id, au_info, at_again>>
  /\ at_creating' = [at_creating EXCEPT ![t] = FALSE]
  /\ UNCHANGED <<atOthers, au_dir, au_running, au_events, au_processed_files,
                 au_since_scan, au_uploaded_earlier, au_retry_due,
                 au_ever_failed, at_new_files>>

\* upload_file, line 181.
ThreadMark(t) ==
  /\ au_running
  /\ at_pc[t] = "mark"
  /\ au_processed_files' = au_processed_files \cup {at_filepath[t]}
  /\ at_pc' = [at_pc EXCEPT ![t] = AfterPending(t)]
  /\ at_filepath' = [at_filepath EXCEPT ![t] = NoFile]
  /\ UNCHANGED <<atOthers, au_dir, au_info, au_running, au_events, au_map_id,
                 au_pending_files, au_since_scan, au_uploaded_run,
                 au_uploaded_earlier, au_retry_due, au_ever_failed,
                 at_new_files, at_creating, at_again>>

ThreadNext ==
  \/ \E f \in Files : ThreadCreateFile(f)
  \/ \E map_id_arg \in {"None", "cli-map"}, all_files \in Orders(au_dir),
        outcome \in Outcomes :
       ThreadStart(map_id_arg, all_files, outcome)
  \/ \E f \in Files : ThreadOnCreated(f)
  \/ \E all_files \in Orders(au_dir) : ThreadScan(all_files)
  \/ ThreadExtend
  \/ \E save_window \in BOOLEAN : ThreadSave(save_window)
  \/ \E t \in Threads : ThreadPendingCheck(t)
  \/ \E t \in Threads : ThreadPop(t)
  \/ \E t \in Threads : ThreadUploadCheck(t)
  \/ \E t \in Threads, outcome \in Outcomes : ThreadLoad(t, outcome)
  \/ \E t \in Threads, outcome \in {"ok", "raise"} : ThreadMapData(t, outcome)
  \/ \E t \in Threads : ThreadMark(t)

\* ======================================= piday2025posters/display-image.py
\* The buttons in the order in which an iteration of the loop tests them.
ButtonOrder == <<"a", "b", "x", "y">>

DisplayHistInit ==
  [k \in {"a", "b", "x", "y"} |-> [held |-> 0, fired |-> 0]]

DSelf ==
  [pc |-> di_pc, prev |-> di_prev, horizontal_flip |-> di_horizontal_flip,
   is_portrait |-> di_is_portrait, rotation_angle |-> di_rotation_angle,
   hist |-> di_hist]

DSet(s) ==
  /\ di_pc' = s.pc
  /\ di_prev' = s.prev
  /\ di_horizontal_flip' = s.horizontal_flip
  /\ di_is_portrait' = s.is_portrait
  /\ di_rotation_angle' = s.rotation_angle
  /\ di_hist' = s.hist

\* The program has not been started.
DisplayIdle ==
  /\ di_pc = "off"
  /\ di_prev = NoButtons
  /\ di_horizontal_flip = FALSE
  /\ di_is_portrait = FALSE
  /\ di_rotation_angle = 0
  /\ di_hist = DisplayHistInit

\* main() has reached its polling loop: the image is shown in the
\* orientation of the arguments, not rotated and not flipped.
DisplayInit ==
  /\ di_pc = "loop"
  /\ di_prev = NoButtons
  /\ di_horizontal_flip = FALSE
  /\ di_is_portrait \in BOOLEAN
  /\ di_rotation_angle = 0
  /\ di_hist = DisplayHistInit

\* button_handler(pin) where display.read_button(pin) returns pressed: it
\* returns at once when the button is read as released, Y leaves the
\* program, and A, B and X change the image.
button_handler(s, k, pressed) ==
  IF ~pressed THEN s
  ELSE LET t == [s EXCEPT !.hist[k].fired = Min(@ + 1, 2)]
       IN IF k = "a" THEN [t EXCEPT !.horizontal_flip = ~@]
          ELSE IF k = "b" THEN [t EXCEPT !.is_portrait = ~@]
          ELSE IF k = "x"
          THEN [t EXCEPT !.rotation_angle = RotateClockwise(@)]
          ELSE [t EXCEPT !.pc = "exited"]

\* The tests of the buttons from the i-th on: if curr_k and not prev_k:
\* button_handler(k), unless the program has exited in the handler of a
\* button before.
RECURSIVE d_check_buttons(_, _, _, _)
d_check_buttons(s, i, c, r) ==
  IF i > Len(ButtonOrder) THEN s
  ELSE LET k == ButtonOrder[i]
           Rest(t) == d_check_buttons(t, i + 1, c, r)
       IN Call(Rest, IF s.pc = "loop" /\ c[k] /\ ~s.prev[k]
                     THEN button_handler(s, k, r[k])
                     ELSE s)

\* prev_a = curr_a, ...: not reached when the handler of Y has called
\* sys.exit.
d_end_iteration(s, c) ==
  IF s.pc = "loop" THEN [s EXCEPT !.prev = c] ELSE s

\* The history after the loop has read c.
DisplayTrack(s, c) ==
  [s EXCEPT !.hist =
     [k \in {"a", "b", "x", "y"} |->
        IF c[k] THEN [held |-> Min(s.hist[k].held + 1, 2),
                      fired |-> s.hist[k].fired]
        ELSE [held |-> 0, fired |-> 0]]]

\* One iteration of the loop that reads c, and r in the handlers it calls.
d_iteration(s, c, r) ==
  LET End(t) == d_end_iteration(t, c)
  IN Call(End, d_check_buttons(DisplayTrack(s, c), 1, c, r))

\* What the handlers can read in an iteration that reads c: a button
\* whose handler runs may have been released since.
HandlerReadings(c) ==
  {r \in Buttons : \A k \in {"a", "b", "x", "y"} :
     ~r[k] => (c[k] /\ ~di_prev[k])}

\* An iteration of the polling loop.
DisplayPoll(c, r) ==
  /\ di_pc = "loop"
  /\ \E next \in {d_iteration(DSelf, c, r)} : DSet(next)
  /\ UNCHANGED diOthers

\* The gallery is the program that runs: a second passes, or an iteration
\* of its main loop reads the buttons as c.
PollingTick ==
  /\ di_pc = "off"
  /\ GalleryTick

PollingGallery(c) ==
  /\ di_pc = "off"
  /\ GalleryPoll(c)

\* In the gallery the user presses A, B and Y in normal mode (X would open
\* the settings menu) and any button in the transform menu.
PollingReadings == {c \in Readings : g_in_transform_menu \/ ~c.x}

PollingNext ==
  \/ \E c \in Buttons : \E r \in HandlerReadings(c) : DisplayPoll(c, r)
  \/ PollingTick
  \/ \E c \in PollingReadings : PollingGallery(c)

\* ========================================================== specifications
\* None of the remaining programs has begun.
RestIdle ==
  /\ GlitchIdle /\ AsciiIdle /\ SlideshowIdle /\ UploadIdle /\ ProcessInit
  /\ ThreadsIdle /\ DisplayIdle

\* None of the first five programs has begun.
OthersIdle ==
  NomicIdle /\ SimpleInit /\ UploaderInit /\ BatchInit /\ GalleryIdle

InitNomic ==
  NomicInit /\ SimpleInit /\ UploaderInit /\ BatchInit /\ GalleryIdle
    /\ RestIdle

SpecNomic == InitNomic /\ [][NomicNext]_vars

InitSimple ==
  NomicIdle /\ SimpleInit /\ UploaderInit /\ BatchInit /\ GalleryIdle
    /\ RestIdle

SpecSimple == InitSimple /\ [][SimpleNext]_vars

InitUploader ==
  NomicIdle /\ SimpleInit /\ UploaderInit /\ BatchInit /\ GalleryIdle
    /\ RestIdle

\* The main loop of atlas_uploader.py runs for as long as the process does.
SpecUploader ==
  InitUploader /\ [][UploaderNext]_vars /\ WF_vars(UploaderLoop)

InitBatch ==
  NomicIdle /\ SimpleInit /\ UploaderInit /\ BatchInit /\ GalleryIdle
    /\ RestIdle

\* The main loop of batch_processor.py keeps running, and time advances: its
\* iterations fall into the force window again and again; writing the output
\* file does not fail for ever.
SpecBatch ==
  InitBatch /\ [][BatchNext]_vars /\ WF_vars(BatchLoopInWindow)

InitBatchEmbed ==
  NomicIdle /\ SimpleInit /\ UploaderInit /\ BatchInit /\ GalleryIdle
    /\ RestIdle

SpecBatchEmbed == InitBatchEmbed /\ [][BatchEmbedNext]_vars

InitGalleryNav ==
  NomicIdle /\ SimpleInit /\ UploaderInit /\ BatchInit /\ GalleryInit
    /\ RestIdle

SpecGalleryNav == InitGalleryNav /\ [][GalleryNavNext]_vars

InitGalleryPress ==
  NomicIdle /\ SimpleInit /\ UploaderInit /\ BatchInit /\ GalleryInit
    /\ RestIdle

SpecGalleryPress == InitGalleryPress /\ [][GalleryPressNext]_vars

InitGalleryTransform ==
  NomicIdle /\ SimpleInit /\ UploaderInit /\ BatchInit /\ GalleryInit
    /\ RestIdle

SpecGalleryTransform ==
  InitGalleryTransform /\ [][GalleryTransformNext]_vars

InitGallerySlideshow ==
  NomicIdle /\ SimpleInit /\ UploaderInit /\ BatchInit /\ GalleryInit
    /\ RestIdle

\* The main loop of image-gallery.py keeps running and time passes.
SpecGallerySlideshow ==
  InitGallerySlideshow /\ [][GallerySlideshowNext]_vars
    /\ WF_vars(GalleryTick) /\ WF_vars(GalleryIdlePoll)

InitGalleryMenu ==
  NomicIdle /\ SimpleInit /\ UploaderInit /\ BatchInit /\ GalleryIdle
    /\ RestIdle

\* Time passes and the loop of settings_menu keeps running.
SpecGalleryMenu ==
  InitGalleryMenu /\ [][GalleryMenuNext]_vars
    /\ WF_vars(GalleryTick) /\ WF_vars(GalleryMenuIdlePoll)

InitGlitch == OthersIdle /\ RestIdle

SpecGlitch == InitGlitch /\ [][GlitchNext]_vars

InitAscii == OthersIdle /\ RestIdle

SpecAscii == InitAscii /\ [][AsciiNext]_vars

InitSlideshow ==
  /\ OthersIdle /\ GlitchIdle /\ AsciiIdle /\ SlideshowInit /\ UploadIdle
  /\ ProcessInit /\ ThreadsIdle /\ DisplayIdle

SpecSlideshow == InitSlideshow /\ [][SlideshowNext]_vars

InitUpload ==
  /\ OthersIdle /\ GlitchIdle /\ AsciiIdle /\ SlideshowIdle /\ UploadInit
  /\ ProcessInit /\ ThreadsIdle /\ DisplayIdle

SpecUpload == InitUpload /\ [][UploadNext]_vars

InitProcess == OthersIdle /\ RestIdle

SpecProcess == InitProcess /\ [][ProcessNext]_vars

InitThreads == OthersIdle /\ RestIdle

SpecThreads == InitThreads /\ [][ThreadNext]_vars

\* One of the two programs with a polling loop runs: display-image.py, or
\* image-gallery.py.
InitPolling ==
  /\ NomicIdle /\ SimpleInit /\ UploaderInit /\ BatchInit
  /\ GlitchIdle /\ AsciiIdle /\ SlideshowIdle /\ UploadIdle /\ ProcessInit
  /\ ThreadsIdle
  /\ GalleryIdle
  /\ DisplayIdle \/ DisplayInit

SpecPolling == InitPolling /\ [][PollingNext]_vars

\* ------------------------------------------------------------------ C1
\* Position (1-based) of a path in the sorted list of distinct paths.
NmPos(f) == CHOOSE i \in 1..Len(nm_image_files) : nm_image_files[i] = f

\* The images whose batch did not raise, in list order.
NmEmbedded ==
  SelectSeq(nm_image_files,
            LAMBDA f : ((NmPos(f) - 1) \div nm_batch_size) \notin nm_raised)

\* C1 (as stated): the JSONL file written by main holds exactly N records,
\* one per image file, whatever the embedding calls did.
C1_AllRecords ==
  (nm_pc = "done" /\ nm_written) => nm_output = nm_image_files

\* C1 (amended): the file holds exactly one record per image of every batch
\* whose embedding call returned, in list order, and none for a batch whose
\* call raised; so it holds N records when no call raised.
C1_RecordsOfEmbeddedBatches ==
  (nm_pc = "done" /\ nm_written) =>
     /\ nm_output = NmEmbedded
     /\ (nm_raised = {} => /\ Len(nm_output) = Cardinality(nm_dir)
                           /\ Range(nm_output) = nm_dir)

\* A run with a partial last batch and a batch that raised has finished.
C1_Witness ==
  /\ nm_pc = "done" /\ nm_written
  /\ Len(nm_image_files) = 3 /\ nm_batch_size = 2
  /\ nm_raised = {0}
  /\ nm_output = <<3>>

\* ------------------------------------------------------------------ C2
\* C2: no image path listed in the tracking file's uploaded_files is given
\* to an Atlas call (map_data or add_data) again, in any run, with or
\* without --new-map.
C2_NoTrackedFileSentAgain ==
  su_sent \cap su_tracked_at_send = {}

\* A run with --new-map, made when the tracking file already listed files,
\* has created a map from new files.
C2_Witness ==
  /\ su_call = "map_data" /\ su_new_map
  /\ su_tracked_at_send # {}
  /\ su_sent # {}
  /\ su_track.uploaded_files = su_tracked_at_send \cup su_sent

\* ------------------------------------------------------------------ C3
\* C3: while the uploader runs and no upload call fails, every .jsonl file
\* in the embeddings directory is eventually in processed_files.
C3_EveryFileEventuallyProcessed ==
  \A f \in Files :
    [](f \in au_dir /\ au_running =>
         <>(f \in au_processed_files \/ au_ever_failed \/ ~au_running))

\* ------------------------------------------------------------------ C4
\* C4: a file whose upload raised is not in processed_files, is back in
\* pending_files, and is tried again while the uploader keeps running.
C4_FailedUploadRetried ==
  \A f \in Files :
    /\ [](f \in au_retry_due =>
            f \notin au_processed_files /\ f \in Range(au_pending_files))
    /\ [](f \in au_retry_due /\ au_running =>
            <>(f \notin au_retry_due \/ ~au_running))

\* ------------------------------------------------------------------ C6
\* C6: a run of the uploader uploads no file that an earlier run on the
\* same directory uploaded.
C6_NoReuploadAcrossRuns ==
  au_uploaded_run \cap au_uploaded_earlier = {}

\* ------------------------------------------------------------------ C5
\* C5: every image found in the raw directory (present when a running
\* processor scans, or queued by a scan or an on_created call) is eventually
\* in a processed batch, whatever the batch size and however many images
\* are pending.
C5_EveryImageEventuallyProcessed ==
  \A img \in Images :
    []((bp_running /\ img \in bp_raw) \/ img \in Range(bp_pending_images)
         => <>(img \in bp_processed_images))

\* Fewer images than a batch were ever pending (there are no more than
\* two), and they were processed: in forced partial batches.
C5_Witness ==
  /\ bp_running /\ bp_batch_size = 3
  /\ bp_pending_images = <<>>
  /\ bp_processed_images = {1, 2}

\* ------------------------------------------------------------------ C7
\* C7 (as stated): when an A press, a B press or a slideshow advance was
\* the last to write the display buffer, the buffer holds the image of the
\* file at current_index, whatever the transition effect.
C7_AdvanceShowsCurrentImage ==
  g_hist.last_write = "advance" => g_buffer = update_display(GSelf)

\* ------------------------------------------------------------------ C8
\* slideshow_mode as the user will find it: the value the open settings
\* menu holds, and else the setting.
EffectiveSlideshowMode ==
  IF g_menu.active THEN g_menu.values[1] ELSE g_settings.slideshow_mode

\* C8 (as stated): once a press of X was held for more than a second and
\* opened the settings menu, slideshow mode is what it was before the
\* press, for as long as no other press is made.
C8_LongPressKeepsSlideshowMode ==
  g_hist.x.phase \in {"long", "released"}
    => EffectiveSlideshowMode = g_hist.x.was

\* ------------------------------------------------------------------ C9
\* C9 (as stated): after a short press of Y show_info is the opposite of
\* what it was before the press; a press of Y held for more than a second
\* opens the transform menu and leaves show_info as it was before the
\* press.
C9_ShortTogglesLongKeepsInfo ==
  /\ g_hist.y.phase = "short" => g_settings.show_info = ~g_hist.y.was
  /\ g_hist.y.phase \in {"long", "released"}
       => g_settings.show_info = g_hist.y.was

\* ------------------------------------------------------------------ C10
\* The index an entry of the navigation history leads to: one less for A,
\* one more for B and for the slideshow, wrapping around.
NavExpected(r) ==
  IF r.op = "A"
  THEN IF r.before = 0 THEN Len(g_image_files) - 1 ELSE r.before - 1
  ELSE IF r.before = Len(g_image_files) - 1 THEN 0 ELSE r.before + 1

\* C10: current_index is always an index of image_files; every A press
\* leads to the previous index and every B press (and slideshow advance)
\* to the next, wrapping around; an A press directly followed by a B press
\* (or B by A) leads back to the index before the two.
C10_IndexValidAndRoundTrip ==
  LET nav == g_hist.nav
  IN /\ g_current_index \in 0..(Len(g_image_files) - 1)
     /\ Len(nav) >= 1 => g_current_index = NavExpected(nav[Len(nav)])
     /\ Len(nav) = 2 => nav[2].before = NavExpected(nav[1])
     /\ (Len(nav) = 2 /\ {nav[1].op, nav[2].op} = {"A", "B"})
          => g_current_index = nav[1].before

\* A was pressed at the first image and then B: both wrapped around.
C10_Witness ==
  /\ Len(g_hist.nav) = 2
  /\ g_hist.nav[1] = [op |-> "A", before |-> 0]
  /\ g_hist.nav[2].op = "B"
  /\ g_current_index = 0

\* ------------------------------------------------------------------ C11
\* The other orientation.
OtherOrientation(o) == IF o = "landscape" THEN "portrait" ELSE "landscape"

\* C11: rotation_angle is always 0, 90, 180 or 270. In the transform menu
\* a run of k presses of A leaves the flip toggled for k = 1 and restored
\* for k = 2, a run of B presses does the same to the orientation, a run
\* of k presses of X leaves the rotation 90 * k further modulo 360
\* (restored for k = 4), each leaving the other two alone; a press of Y
\* leaves the menu with flip and rotation as they were.
C11_TransformMenuAlgebra ==
  LET tm == g_hist.tm
      flip_kept == g_horizontal_flip = tm.before.flip
      orientation_kept == g_settings.orientation = tm.before.orientation
      rotation_kept == g_rotation_angle = tm.before.rotation
  IN /\ g_rotation_angle \in {0, 90, 180, 270}
     /\ tm.op = "a" =>
          /\ g_in_transform_menu /\ orientation_kept /\ rotation_kept
          /\ g_horizontal_flip
               = (IF tm.count = 2 THEN tm.before.flip ELSE ~tm.before.flip)
     /\ tm.op = "b" =>
          /\ g_in_transform_menu /\ flip_kept /\ rotation_kept
          /\ g_settings.orientation
               = (IF tm.count = 2 THEN tm.before.orientation
                  ELSE OtherOrientation(tm.before.orientation))
     /\ tm.op = "x" =>
          /\ g_in_transform_menu /\ flip_kept /\ orientation_kept
          /\ g_rotation_angle
               = (IF tm.count = 4 THEN tm.before.rotation
                  ELSE IF tm.before.rotation + 90 * tm.count >= 360
                  THEN tm.before.rotation + 90 * tm.count - 360
                  ELSE tm.before.rotation + 90 * tm.count)
     /\ tm.op = "y" => ~g_in_transform_menu /\ flip_kept /\ rotation_kept

\* In the transform menu the image was flipped and then X was pressed four
\* times in a row.
C11_Witness ==
  /\ g_hist.tm.op = "x" /\ g_hist.tm.count = 4
  /\ g_hist.tm.before.flip /\ g_in_transform_menu

\* ------------------------------------------------------------------ C12
\* The screen shows the image at index i of the list, which is the current
\* one.
Shown(i) == g_current_index = i /\ g_buffer = update_display(GSelf)

\* The last iteration of the main loop read no button as pressed.
NoButtonPressed == g_prev = NoButtons

\* In an iteration that reads no button current_index changes only in
\* slideshow mode, when more than slide_delay has passed since
\* last_slideshow_time, and then to the next index of the list, restarting
\* the delay.
SlideshowStep ==
  (g_current_index' # g_current_index /\ NoButtonPressed')
    => /\ g_settings.slideshow_mode
       /\ 2 * g_last_slideshow_time > g_settings.slide_delay
       /\ g_current_index'
            = (IF g_current_index = Len(g_image_files) - 1 THEN 0
               ELSE g_current_index + 1)
       /\ g_last_slideshow_time' = 0

\* C12 (as stated): with slideshow mode on, normal mode and no button
\* pressed, current_index advances by exactly 1 modulo the number of images
\* each time more than slide_delay has passed, and every image of the list
\* is shown on the screen again and again.
C12_SlideshowShowsEveryImage ==
  /\ [][SlideshowStep]_vars
  /\ (g_settings.slideshow_mode /\ <>[]NoButtonPressed)
       => \A i \in 0..(GalleryImages - 1) : []<>Shown(i)

\* ------------------------------------------------------------------ C13
\* The reading of the step now taken has Y as its only new press in the
\* settings menu.
PressesYInMenu ==
  LET c == g_hist.last'
  IN /\ c.y /\ ~g_menu.prev.y
     /\ ~\E k \in {"a", "b", "x"} : c[k] /\ ~g_menu.prev[k]

\* An iteration of the loop of the open settings menu leaves the menu
\* exactly when more than MENU_TIMEOUT has passed since the menu opened or
\* since the last A, B or X press, or when it reads a Y press.
MenuStep ==
  \/ GalleryTick
  \/ g_menu.active
       => (~g_menu.active' <=> (g_hist.idle > MENU_TIMEOUT \/ PressesYInMenu))

\* C13: the settings menu closes once more than MENU_TIMEOUT seconds have
\* passed since it opened or since the last A, B or X press and at once on
\* a Y press, and not before (every A, B or X press restarts the
\* time-out); when no button is pressed any more it does not stay open.
C13_MenuClosesOnTimeoutOrY ==
  /\ [][MenuStep]_vars
  /\ <>[](g_hist.last = NoButtons) => <>[]~g_menu.active

\* The settings menu was left by its time-out, which a press made in the
\* menu had restarted.
C13_Witness ==
  /\ ~g_menu.active
  /\ g_hist.closed = "timeout"
  /\ g_hist.restarted

\* ------------------------------------------------------------------ C14
\* C14: when glitch_transition has ended, by returning or by an exception
\* leaving it, the frame written last to the display buffer is next_image,
\* for every frames (0 and 1 included) and whether or not an operation of
\* the transition raised an exception.
C14_GlitchEndsOnNextImage ==
  gl_pc \in {"returned", "raised"} => gl_buffer = gl_next

\* A call with frames = 1, whose second loop divides by zero, has returned
\* after writing another image than the one it began with.
C14_Witness ==
  /\ gl_pc = "returned"
  /\ gl_frames = 1
  /\ gl_caught = "ZeroDivisionError"
  /\ gl_current # gl_next
  /\ gl_buffer = gl_next

\* ------------------------------------------------------------------ C15
\* C15: for every frames >= 2, when ascii_transition has returned the frame
\* written last to the display buffer is next_image.
C15_AsciiEndsOnNextImage ==
  as_pc = "returned" /\ as_frames >= 2 => as_buffer = as_next

\* ------------------------------------------------------------------ C16
\* A step of slideshow-script.py: while paused the index changes only by an
\* A or B press; an X press toggles paused; and the first automatic advance
\* after a resume comes no sooner than SLIDE_DELAY after the resuming press.
PauseStep ==
  /\ ss_paused /\ ss_current_index' # ss_current_index
       => ss_hist'.step \in {"A", "B"}
  /\ ss_hist'.step = "X" => ss_paused' = ~ss_paused
  /\ ss_hist'.step = "advance" /\ ss_hist.resumed # Unset
       => ss_hist.resumed >= SLIDE_DELAY

\* C16: while paused the main loop never advances current_index, X toggles
\* paused, and after a resume the next automatic advance happens no sooner
\* than SLIDE_DELAY after the resuming press.
C16_PauseHoldsAndResumeRestartsDelay == [][PauseStep]_vars

\* ------------------------------------------------------------------ C17
\* C17: a run of simple_upload_to_atlas.py that has chosen its dataset id
\* (and sent no batch yet) uses the --dataset-id of the command line when
\* one was given, whatever its value, else the dataset_id of the tracking
\* file when it holds one, else the default.
C17_DatasetIdPriority ==
  su_pc = "batches" /\ su_i = 0
    => su_dataset_id =
         IF su_cli_dataset # "None" THEN su_cli_dataset
         ELSE IF su_track.dataset_id # "None" THEN su_track.dataset_id
         ELSE DEFAULT_DATASET

\* ------------------------------------------------------------------ C18
\* The Atlas call of the last run of upload_to_atlas.py created a map
\* exactly when --new-map was given or neither --map-id nor the info file
\* gave a map id, and else updated the map of --map-id, or without it the
\* map of the info file.
UploadCallAsArgued ==
  LET h == ua_hist
      known == h.map_id_arg # "None" \/ h.stored # "None"
  IN h.atlas.call # "none"
       => /\ h.atlas.call = "create" <=> (h.new_map \/ ~known)
          /\ h.atlas.call = "update"
               => h.atlas.identifier =
                    IF h.map_id_arg # "None" THEN h.map_id_arg ELSE h.stored

\* A step that changes atlas_info.json is one in which the Atlas call of
\* the run returned.
InfoWrittenAfterUpload ==
  ua_info' # ua_info
    => /\ ua_pc = "upload"
       /\ ua_hist'.atlas.outcome = "ok"
       /\ ua_info' = InfoFile(ua_map_id')

ToProcess ==
  IF pi_force THEN pi_hist.found ELSE pi_hist.found \ pi_hist.recorded

C20_NoFileUploadedTwice ==
  at_again = {}

\* ------------------------------------------------------------------ C21
\* C21: every image in processed_images (moved to the processed directory
\* when one is configured) has an embedding record in the output JSONL file
\* of its batch, whether the embedding call returned or raised.
C21_ProcessedImagesHaveRecords ==
  bp_processed_images \subseteq bp_recorded

\* ------------------------------------------------------------------ C22
\* display-image.py: no button's action has run more than once since the
\* loop last read the button as released.
DisplayOnce ==
  \A k \in {"a", "b", "x", "y"} : di_hist[k].fired <= 1

\* The step now taken is an iteration of the main loop of the gallery in
\* which the action of button k runs: in the transform menu the flip (A),
\* the change of orientation (B), the rotation (X) or the leaving of the
\* menu (Y), in normal mode the showing of the previous (A) or the next (B)
\* image.
GalleryFires(k) ==
  IF g_in_transform_menu
  THEN CASE k = "a" -> g_horizontal_flip' # g_horizontal_flip
         [] k = "b" -> g_settings'.orientation # g_settings.orientation
         [] k = "x" -> g_rotation_angle' # g_rotation_angle
         [] k = "y" -> ~g_in_transform_menu'
  ELSE /\ ~g_menu.active
       /\ k \in {"a", "b"}
       /\ g_hist'.nav # g_hist.nav
       /\ g_hist'.nav[Len(g_hist'.nav)].op = (IF k = "a" THEN "A" ELSE "B")

\* image-gallery.py: the action of a button runs only in an iteration that
\* reads the button as pressed after the iteration before read it as
\* released.
GalleryOnce ==
  \A k \in {"a", "b", "x", "y"} :
    GalleryFires(k) => ~g_hist.last[k] /\ g_hist'.last[k]

\* C22: in the polling loops of display-image.py (all four buttons) and of
\* image-gallery.py (A and B in normal mode, all four buttons in the
\* transform menu) a button that stays pressed over any number of
\* iterations triggers its action at most once, and the action runs again
\* only after the loop has read the button as released.
C22_HeldButtonFiresOnce ==
  /\ []DisplayOnce
  /\ [][GalleryOnce]_vars

\* display-image.py has read A as pressed in two or more iterations in a
\* row, and the flip has run once in them.
C22_Witness ==
  /\ di_pc = "loop"
  /\ di_hist["a"].held = 2
  /\ di_hist["a"].fired = 1
  /\ di_prev.a

====
